---- MODULE Spec2Model ----
(***************************************************************************)
(* Model of the image editor: the remote-call layer (editImage, with its   *)
(* single automatic retry and error classification) and the generation     *)
(* orchestrator of the App component (executeGeneration with its optional  *)
(* upscale pass, the persona-scene batch, and the user actions that can    *)
(* interleave with an outstanding remote call).                            *)
(*                                                                         *)
(* These specifications share the definitions:                             *)
(*   SpecEdit    - one editImage call in isolation, every remote outcome   *)
(*   Spec        - the App component: handlers and async continuations     *)
(*   SpecLive    - the requests and their continuations under fair         *)
(*                 scheduling of responses and retry timers                *)
(*   SpecMask    - the source panel's mask drawing with the handlers that  *)
(*                 change the source image and the Generate button         *)
(*   SpecPoint   - mask drawing with pointer positions and image sizes     *)
(*   SpecPrompt  - the instruction text from the selections to the text    *)
(*                 sent to the remote service                              *)
(*   SpecOverlay - the mask overlay and its delayed redraw                 *)
(*   SpecKey     - the access key in the modal, localStorage and           *)
(*                 process.env.API_KEY                                     *)
(*   SpecRevert  - the revert operation of the result panel applied to     *)
(*                 every bounded history                                   *)
(*   SpecCompose - the Prompt Composer run twice on the same inputs        *)
(*   SpecCanvas  - one pointer position normalized and mapped back onto    *)
(*                 the letterboxed canvas                                  *)
(***************************************************************************)
EXTENDS Integers, Sequences, FiniteSets, TLC

VARIABLES
    \* ---- App component state (useState hooks) ----
    sourceImage,             \* ImageSource | null
    originalImage,           \* ImageSource | null
    maskImage,               \* string | null  (an exported raster)
    currentGeneratedImage,   \* ImageSource | null
    generatedImageHistory,   \* ImageSource[]
    isGenerating,
    isUpscaling,
    error,                   \* string | null
    apiKey,                  \* string ('' when absent)
    isKeyModalOpen,
    selectedSize,            \* ImageSize
    selectedMotion,          \* string | null
    isGeneratingScenes,
    sceneProgress,
    \* ---- asynchronous continuations ----
    tasks,                   \* executeGeneration invocations awaiting editImage
    batch,                   \* the handleGeneratePersonaScenes invocation
    \* ---- environment / observation ----
    nextImg,                 \* next fresh image identity
    userActions,             \* user actions the run may still take
    toast,                   \* toast shown by the last step (or NoToast)
    lastEvent,               \* what the last step did
    \* ---- source ImagePanel state (useState / useRef) ----
    panel,                   \* isMasking, isDrawing, paths, currentPath
    \* ---- one editImage call in isolation (SpecEdit) ----
    ei,
    \* ---- one instruction on its way to the remote service (SpecPrompt) ----
    promptCall,              \* what was selected, composed and sent
    \* ---- the access key outside the component state (SpecKey) ----
    keyStore,                \* localStorage, process.env.API_KEY, the key input
    \* ---- one pointer position on its way to the canvas (SpecCanvas) ----
    stroke

appVars == <<sourceImage, originalImage, maskImage, currentGeneratedImage,
             generatedImageHistory, isGenerating, isUpscaling, error, apiKey,
             isKeyModalOpen, selectedSize, selectedMotion, isGeneratingScenes,
             sceneProgress, tasks, batch, nextImg, userActions, toast,
             lastEvent, panel>>

vars == <<appVars, ei, panel, promptCall, keyStore, stroke>>

----------------------------------------------------------------------------
(* Bounds *)

MaxTasks == 2      \* executeGeneration invocations that may overlap
MaxImages == 4     \* fresh image identities (uploads and remote results)
MaxParts == 2      \* content segments in one remote response
MaxMarkers == 2    \* classifier markers occurring in one error message
MaxUserActions == 4 \* user actions (clicks, keys, uploads) in one run
MaxPaths == 2      \* strokes kept in the source panel's path set
MaxPoints == 2     \* points recorded in one stroke
MaxMaskActions == 7 \* user actions in one run of the masking specification
MaxDim == 2        \* pixels across an image or the image element, per axis
MaxText == 2       \* characters typed in the prompt textarea
MaxTimers == 2     \* overlay redraw timers pending at one time
MaxKey == 2        \* characters typed in the key input
MaxCanvas == 3     \* pixels across the image element when a segment is stroked

None == "null"      \* null / undefined of a string-valued slot
NoImage == 0        \* null / undefined of an image-valued slot; images are 1, 2, ...

----------------------------------------------------------------------------
(* geminiService.ts: editImage *)

\* a retry limit one higher than the code's
maxRetries_Two == 1 + 1

\* const maxRetries = 1
maxRetries == 1

\* the substrings tested by errorMessage.includes(...) in the catch block
TransientMarkers == {"503", "Deadline expired", "timeout", "Overloaded"}
CredentialMarkers == {"403", "API key not valid", "Requested entity was not found"}

\* "Deadline" alone is tested by executeGeneration's catch
Markers == TransientMarkers \cup CredentialMarkers \cup {"Deadline"}

\* A message is a text together with the set of markers occurring in it
\* (all that String.prototype.includes can observe of it); a message
\* containing "Deadline expired" contains "Deadline".
WellFormedMarkers(m) == ("Deadline expired" \in m) => ("Deadline" \in m)

Message(text, markers) == [text |-> text, markers |-> markers]

\* the messages the remote service may fail with
RemoteMessages ==
    {Message("remote", m) : m \in
        {m \in SUBSET Markers :
            /\ WellFormedMarkers(m)
            /\ Cardinality(m \ {"Deadline"}) <= MaxMarkers}}

\* a value thrown by ai.models.generateContent: an Error object or any
\* other value (whose String(...) is the message)
ThrownValues == [isError : BOOLEAN, message : RemoteMessages]

\* message.includes(s)
Includes(message, s) == s \in message.markers

\* a returned content segment: text or inline image data
TextPart(s) == [text |-> s, inlineData |-> NoImage]
ImagePart(i) == [text |-> None, inlineData |-> i]

\* messages of the errors editImage throws
InvalidKeyMessage ==
    Message("Invalid API Key or project configuration. Please check your AI Studio settings.", {})
ServerBusyMessage == Message("SERVER_BUSY", {})
UnexpectedMessage ==
    Message("An unexpected error occurred while communicating with the Gemini API.", {})
NoMessage == Message(None, {})

\* errorMessage.includes("503") || ... || errorMessage.includes("Overloaded")
IsTransientError(message) ==
    \E m \in TransientMarkers : Includes(message, m)

IsCredentialError(message) ==
    \E m \in CredentialMarkers : Includes(message, m)

\* the error editImage throws when it does not retry
ThrownError(e) ==
    IF e.isError
    THEN IF IsCredentialError(e.message) THEN InvalidKeyMessage
         ELSE IF IsTransientError(e.message) THEN ServerBusyMessage
         ELSE e.message
    ELSE UnexpectedMessage

\* the scan of response.candidates[0].content.parts
RECURSIVE ScanParts(_, _)
ScanParts(parts, acc) ==
    IF parts = <<>> THEN acc
    ELSE LET part == Head(parts)
             next == IF part.text # None
                     THEN [acc EXCEPT !.text = part.text]
                     ELSE IF part.inlineData # NoImage
                          THEN [acc EXCEPT !.base64 = part.inlineData]
                          ELSE acc
         IN ScanParts(Tail(parts), next)

ParseResponse(parts) == ScanParts(parts, [base64 |-> NoImage, text |-> None])

NoResult == [base64 |-> NoImage, text |-> None]

\* state of one editImage call
\*   pc       "idle" | "request" (generateContent outstanding) |
\*            "delay" (the 2 s retry timer) | "returned" | "thrown"
\*   attempt  the loop variable
\*   attempts the number of generateContent requests issued
IdleCall == [pc |-> "idle", attempt |-> 0, attempts |-> 0,
             result |-> NoResult, thrown |-> NoMessage]

\* let attempt = 0; first pass through the while loop
EditImageInvoke ==
    [pc |-> "request", attempt |-> 0, attempts |-> 1,
     result |-> NoResult, thrown |-> NoMessage]

\* try block: the response is parsed and returned
EditImageReturn(c, parts) ==
    [c EXCEPT !.pc = "returned", !.result = ParseResponse(parts)]

\* catch block with the retry decision replaced by "always throw"
EditImageCatch_NoRetry(c, e) ==
    [c EXCEPT !.pc = "thrown", !.thrown = ThrownError(e)]

\* catch block
EditImageCatch(c, e) ==
    IF IsTransientError(e.message) /\ c.attempt < maxRetries
    THEN [c EXCEPT !.pc = "delay", !.attempt = c.attempt + 1]
    ELSE [c EXCEPT !.pc = "thrown", !.thrown = ThrownError(e)]

\* the retry timer fires: continue, next pass through the while loop
EditImageRetry(c) ==
    [c EXCEPT !.pc = "request", !.attempts = c.attempts + 1]

----------------------------------------------------------------------------
(* SpecEdit: one editImage call, every outcome of the remote service *)

\* the content segments a response may carry
EditParts == {TextPart("text"), ImagePart(1), ImagePart(2)}

RECURSIVE SeqsUpTo(_, _)
SeqsUpTo(S, n) ==
    IF n = 0 THEN {<<>>}
    ELSE LET shorter == SeqsUpTo(S, n - 1)
         IN shorter \cup {Append(q, x) : q \in shorter, x \in S}

EditResponses == SeqsUpTo(EditParts, MaxParts)

NoThrown == [isError |-> FALSE, message |-> NoMessage]

\* one entry of the log of attempts: what the remote service answered
Answered(parts) == [ok |-> TRUE, parts |-> parts, e |-> NoThrown]
Failed(e) == [ok |-> FALSE, parts |-> <<>>, e |-> e]

EI_Invoke ==
    /\ ei.call.pc = "idle"
    /\ ei.log = <<>>
    /\ ei' = [call |-> EditImageInvoke, log |-> <<>>]
    /\ UNCHANGED <<appVars, promptCall, keyStore, stroke>>

EI_Respond ==
    /\ ei.call.pc = "request"
    /\ \E parts \in EditResponses :
          ei' = [call |-> EditImageReturn(ei.call, parts),
                 log |-> Append(ei.log, Answered(parts))]
    /\ UNCHANGED <<appVars, promptCall, keyStore, stroke>>

EI_Fail ==
    /\ ei.call.pc = "request"
    /\ \E e \in ThrownValues :
          ei' = [call |-> EditImageCatch(ei.call, e),
                 log |-> Append(ei.log, Failed(e))]
    /\ UNCHANGED <<appVars, promptCall, keyStore, stroke>>

EI_RetryTimer ==
    /\ ei.call.pc = "delay"
    /\ ei' = [ei EXCEPT !.call = EditImageRetry(ei.call)]
    /\ UNCHANGED <<appVars, promptCall, keyStore, stroke>>

----------------------------------------------------------------------------
(* App component: values *)

ImageSizes == {"1K", "2K", "4K"}

\* the motions offered by the MOTIONS buttons that the model exercises
MotionChoices == {"static", "running"}

\* keys of SCENARIO_POOLS (every entry of MOTIONS has a pool)
ScenarioPoolKeys ==
    {"sitting", "lying", "running", "jumping", "crying", "static",
     "reaching", "crouching", "lookingup"}

\* useState<number>(50)
structureWeight == 50

\* effectiveStructureWeight = 20 when a non-static motion is selected
motionStructureWeight == 20

\* the weight of the upscale call
upscaleStructureWeight == 100

\* const batchStructureWeight = 20
batchStructureWeight == 20

\* scenes.length
NumScenes == 5

Tasks == 1..MaxTasks

hasApiKey == apiKey # ""

\* toasts (showToast(message, type))
Toast(message, type) == [message |-> message, type |-> type]
NoToast == Toast(None, None)

\* i18n strings
TServerBusy == Message("t.serverBusy", {})
TGenError == "t.genError"

\* a point of a stroke: a normalized position on the image displayed when
\* the pointer event was handled
Point(img) == [on |-> img]

\* the raster exportMask draws: black, with the paths of two or more points
\* stroked in white, at the natural size of the displayed image
Raster(paths, img) ==
    [strokes |-> SelectSeq(paths, LAMBDA path : Len(path) >= 2), size |-> img]

\* maskImage === null
NoMask == [strokes |-> <<>>, size |-> NoImage]

\* the arguments of one editImage call that the orchestrator chooses
Request(input, imageSize, mask, weight) ==
    [input |-> input, imageSize |-> imageSize, maskImage |-> mask,
     structureWeight |-> weight]
NoRequest == Request(NoImage, None, NoMask, 0)

\* one executeGeneration invocation: its editImage call, the values its
\* closure captured, and what it has done so far
\*   phase   "none" | "base" | "upscale"
\*   calls   editImage calls made by this invocation
IdleTask ==
    [call |-> IdleCall, phase |-> "none", size |-> None,
     req |-> NoRequest, baseOut |-> NoImage, calls |-> 0]

\* the handleGeneratePersonaScenes invocation: i is the loop index
IdleBatch ==
    [call |-> IdleCall, i |-> 0, req |-> NoRequest]

\* a call record as kept while the call is pending (result and thrown are
\* consumed by the awaiting continuation in the same step)
Pending(c) == [c EXCEPT !.result = NoResult, !.thrown = NoMessage]

\* what the remote service may answer in the App specification: an image
\* part carries a fresh image
AppResponses ==
    {<<>>, <<TextPart("text")>>} \cup
    (IF nextImg <= MaxImages
     THEN {<<ImagePart(nextImg)>>, <<TextPart("text"), ImagePart(nextImg)>>}
     ELSE {})

\* the failures of the remote service in the App specification: one
\* message of each class the two catch blocks distinguish
AppThrownValues ==
    {e \in ThrownValues :
        e.message.markers \in {{}, {"503"}, {"403"}, {"Deadline"}}}

\* a step taken by the user
UserAction ==
    /\ userActions > 0
    /\ userActions' = userActions - 1

HasFreeTask == \E t \in Tasks : tasks[t].call.pc = "idle"
FreeTask == CHOOSE t \in Tasks :
               /\ tasks[t].call.pc = "idle"
               /\ \A u \in Tasks : tasks[u].call.pc = "idle" => t <= u

\* result.imageUrl && result.base64 && result.mimeType
HasImage(result) == result.base64 # NoImage

Last(q) == q[Len(q)]

\* the upscaled image added as a further record
ReplaceLast_Append(history, img) == Append(history, img)

\* newHistory[newHistory.length - 1] = upscaledImg, when length > 0
ReplaceLast(history, img) ==
    IF Len(history) > 0
    THEN [history EXCEPT ![Len(history)] = img]
    ELSE history

\* the base commit left out
AppendRecord_Skip(history, img) == history

\* setGeneratedImageHistory(prev => [...prev, newImg])
AppendRecord(history, img) == Append(history, img)

\* delete-result emptying the history
DropLast_All(history) == <<>>

\* prev.slice(0, -1)
DropLast(history) ==
    IF Len(history) > 0 THEN SubSeq(history, 1, Len(history) - 1) ELSE history

----------------------------------------------------------------------------
(* App component: executeGeneration *)

\* const initialSize = size === "4K" ? "2K" : size  (a variant of the cap)
InitialSize_High(size) == IF size = "4K" THEN "2K" ELSE size

\* const initialSize = size === "4K" ? "1K" : size
InitialSize(size) == IF size = "4K" THEN "1K" ELSE size

\* effectiveStructureWeight, for a call without overrideStructureWeight
EffectiveStructureWeight(motion) ==
    IF motion # None /\ motion \in ScenarioPoolKeys /\ motion # "static"
    THEN motionStructureWeight
    ELSE structureWeight

\* errorMsg of executeGeneration's catch
DisplayedError(message) ==
    IF \/ message.text = "SERVER_BUSY"
       \/ Includes(message, "503")
       \/ Includes(message, "Deadline")
    THEN TServerBusy
    ELSE message

\* executeGeneration(prompt), from its first line to the first await
ExecuteGeneration ==
    IF sourceImage = NoImage
    THEN /\ error' = Message("Upload a source image.", {})
         /\ lastEvent' = "generate_rejected"
         /\ toast' = Toast("Please upload a source image first.", "error")
         /\ UNCHANGED <<sourceImage, originalImage, maskImage,
                        currentGeneratedImage, generatedImageHistory,
                        isGenerating, isUpscaling, apiKey, isKeyModalOpen,
                        selectedSize, selectedMotion, isGeneratingScenes,
                        sceneProgress, tasks, batch, nextImg>>
    ELSE IF ~hasApiKey
    THEN /\ error' = Message("API Key Required", {})
         /\ lastEvent' = "generate_rejected"
         /\ toast' = Toast("Please set your Gemini API Key in settings first.", "error")
         /\ isKeyModalOpen' = TRUE
         /\ UNCHANGED <<sourceImage, originalImage, maskImage,
                        currentGeneratedImage, generatedImageHistory,
                        isGenerating, isUpscaling, apiKey,
                        selectedSize, selectedMotion, isGeneratingScenes,
                        sceneProgress, tasks, batch, nextImg>>
    ELSE /\ HasFreeTask
         /\ isGenerating' = TRUE
         /\ isUpscaling' = FALSE
         /\ error' = NoMessage
         /\ tasks' = [tasks EXCEPT ![FreeTask] =
                [call |-> Pending(EditImageInvoke),
                 phase |-> "base",
                 size |-> selectedSize,
                 req |-> Request(sourceImage, InitialSize(selectedSize),
                                 maskImage,
                                 EffectiveStructureWeight(selectedMotion)),
                 baseOut |-> NoImage,
                 calls |-> 1]]
         /\ lastEvent' = "generate"
         /\ toast' = NoToast
         /\ UNCHANGED <<sourceImage, originalImage, maskImage,
                        currentGeneratedImage, generatedImageHistory, apiKey,
                        isKeyModalOpen, selectedSize, selectedMotion,
                        isGeneratingScenes, sceneProgress, batch, nextImg>>

\* the Generate button: disabled={(isGenerating && !isUpscaling) || !sourceImage}
GenerateButton ==
    /\ UserAction
    /\ ~isKeyModalOpen
    /\ ~((isGenerating /\ ~isUpscaling) \/ sourceImage = NoImage)
    /\ ExecuteGeneration
    /\ UNCHANGED <<ei, panel, promptCall, keyStore, stroke>>

\* Enter (without Shift) in the prompt textarea
PromptEnterKey ==
    /\ UserAction
    /\ ExecuteGeneration
    /\ UNCHANGED <<ei, panel, promptCall, keyStore, stroke>>

\* catch (err) of executeGeneration
GenerationFailed(t, thrown) ==
    /\ isGenerating' = FALSE
    /\ isUpscaling' = FALSE
    /\ error' = DisplayedError(thrown)
    /\ lastEvent' = "generate_failed"
    /\ toast' = Toast(IF DisplayedError(thrown) = TServerBusy
                      THEN TServerBusy.text ELSE TGenError, "error")
    /\ tasks' = [tasks EXCEPT ![t] = IdleTask]
    /\ UNCHANGED <<sourceImage, originalImage, maskImage,
                   currentGeneratedImage, generatedImageHistory, apiKey,
                   isKeyModalOpen, selectedSize, selectedMotion,
                   isGeneratingScenes, sceneProgress, batch, nextImg>>

\* the upscale pass issued with the source image instead of the base result
UpscaleRequest_FromSource(task, result) ==
    Request(task.req.input, "4K", NoMask, upscaleStructureWeight)

\* the arguments of the upscale editImage call
UpscaleRequest(task, result) ==
    Request(result.base64, "4K", NoMask, upscaleStructureWeight)

\* if (result.imageUrl && result.base64 && result.mimeType) { ... }: commit,
\* then (for "4K") start the upscale pass
BaseCommitted(t, result) ==
    LET task == tasks[t] IN
    /\ currentGeneratedImage' = result.base64
    /\ generatedImageHistory' = AppendRecord(generatedImageHistory, result.base64)
    /\ isGenerating' = FALSE
    /\ nextImg' = nextImg + 1
    /\ IF task.size = "4K"
       THEN /\ isUpscaling' = TRUE
            /\ tasks' = [tasks EXCEPT ![t] =
                   [task EXCEPT !.call = Pending(EditImageInvoke),
                                !.phase = "upscale",
                                !.req = UpscaleRequest(task, result),
                                !.baseOut = result.base64,
                                !.calls = task.calls + 1]]
            /\ lastEvent' = "upscale_issued"
       ELSE /\ isUpscaling' = isUpscaling
            /\ tasks' = [tasks EXCEPT ![t] = IdleTask]
            /\ lastEvent' = "base_committed"
    /\ toast' = NoToast
    /\ UNCHANGED <<sourceImage, originalImage, maskImage, error, apiKey,
                   isKeyModalOpen, selectedSize, selectedMotion,
                   isGeneratingScenes, sceneProgress, batch>>

\* a result without an image handled like a failure of the call
BaseEmpty_AsError(t, result) ==
    /\ isGenerating' = FALSE
    /\ error' = Message("Unknown error", {})
    /\ tasks' = [tasks EXCEPT ![t] = IdleTask]
    /\ lastEvent' = IF result.text = None THEN "base_empty" ELSE "base_text_only"
    /\ toast' = Toast(TGenError, "error")
    /\ UNCHANGED <<sourceImage, originalImage, maskImage,
                   currentGeneratedImage, generatedImageHistory,
                   isUpscaling, apiKey, isKeyModalOpen,
                   selectedSize, selectedMotion, isGeneratingScenes,
                   sceneProgress, batch, nextImg>>

\* else { setIsGenerating(false); }: the result carries no image
BaseEmpty(t, result) ==
    /\ isGenerating' = FALSE
    /\ tasks' = [tasks EXCEPT ![t] = IdleTask]
    /\ lastEvent' = IF result.text = None THEN "base_empty" ELSE "base_text_only"
    /\ toast' = NoToast
    /\ UNCHANGED <<sourceImage, originalImage, maskImage,
                   currentGeneratedImage, generatedImageHistory,
                   isUpscaling, error, apiKey, isKeyModalOpen,
                   selectedSize, selectedMotion, isGeneratingScenes,
                   sceneProgress, batch, nextImg>>

\* the base call returned
BaseReturned(t, result) ==
    IF HasImage(result) THEN BaseCommitted(t, result) ELSE BaseEmpty(t, result)

\* the upscale call returned
UpscaleReturned(t, result) ==
    /\ IF HasImage(result)
       THEN /\ currentGeneratedImage' = result.base64
            /\ generatedImageHistory' =
                   ReplaceLast(generatedImageHistory, result.base64)
            /\ nextImg' = nextImg + 1
            /\ lastEvent' = "upscale_committed"
       ELSE /\ UNCHANGED <<currentGeneratedImage, generatedImageHistory, nextImg>>
            /\ lastEvent' = "upscale_empty"
    /\ isUpscaling' = FALSE
    /\ tasks' = [tasks EXCEPT ![t] = IdleTask]
    /\ toast' = NoToast
    /\ UNCHANGED <<sourceImage, originalImage, maskImage, isGenerating, error,
                   apiKey, isKeyModalOpen, selectedSize, selectedMotion,
                   isGeneratingScenes, sceneProgress, batch>>

\* an upscale failure handled like a generation failure: the base result
\* is rolled back and the error indicator set
UpscaleFailed_Rollback(t) ==
    /\ lastEvent' = "upscale_failed"
    /\ toast' = Toast("4K Upscale failed due to timeout, but 1K image is saved.", "info")
    /\ isUpscaling' = FALSE
    /\ tasks' = [tasks EXCEPT ![t] = IdleTask]
    /\ generatedImageHistory' = DropLast(generatedImageHistory)
    /\ currentGeneratedImage' = NoImage
    /\ error' = TServerBusy
    /\ UNCHANGED <<sourceImage, originalImage, maskImage, isGenerating,
                   apiKey, isKeyModalOpen, selectedSize, selectedMotion,
                   isGeneratingScenes, sceneProgress, batch, nextImg>>

\* catch (upscaleErr) ... finally
UpscaleFailed(t) ==
    /\ lastEvent' = "upscale_failed"
    /\ toast' = Toast("4K Upscale failed due to timeout, but 1K image is saved.", "info")
    /\ isUpscaling' = FALSE
    /\ tasks' = [tasks EXCEPT ![t] = IdleTask]
    /\ UNCHANGED <<sourceImage, originalImage, maskImage,
                   currentGeneratedImage, generatedImageHistory, isGenerating,
                   error, apiKey, isKeyModalOpen, selectedSize, selectedMotion,
                   isGeneratingScenes, sceneProgress, batch, nextImg>>

\* the retry timer of a task's editImage call is started
TaskRetryScheduled(t, c) ==
    /\ tasks' = [tasks EXCEPT ![t].call = Pending(c)]
    /\ lastEvent' = "retry_scheduled"
    /\ toast' = NoToast
    /\ UNCHANGED <<sourceImage, originalImage, maskImage,
                   currentGeneratedImage, generatedImageHistory, isGenerating,
                   isUpscaling, error, apiKey, isKeyModalOpen, selectedSize,
                   selectedMotion, isGeneratingScenes, sceneProgress, batch,
                   nextImg>>

\* the remote service answers a task's outstanding request
TaskResponse(t) ==
    /\ UNCHANGED userActions
    /\ tasks[t].call.pc = "request"
    /\ \E parts \in AppResponses :
          LET c == EditImageReturn(tasks[t].call, parts) IN
          IF tasks[t].phase = "base"
          THEN BaseReturned(t, c.result)
          ELSE UpscaleReturned(t, c.result)
    /\ UNCHANGED <<ei, panel, promptCall, keyStore, stroke>>

\* the remote service fails a task's outstanding request
TaskFailure(t) ==
    /\ UNCHANGED userActions
    /\ tasks[t].call.pc = "request"
    /\ \E e \in AppThrownValues :
          LET c == EditImageCatch(tasks[t].call, e) IN
          IF c.pc = "delay"
          THEN TaskRetryScheduled(t, c)
          ELSE IF tasks[t].phase = "base"
               THEN GenerationFailed(t, c.thrown)
               ELSE UpscaleFailed(t)
    /\ UNCHANGED <<ei, panel, promptCall, keyStore, stroke>>

\* the 2 s retry timer of a task's editImage call fires
TaskRetryTimer(t) ==
    /\ UNCHANGED userActions
    /\ tasks[t].call.pc = "delay"
    /\ tasks' = [tasks EXCEPT ![t].call = EditImageRetry(tasks[t].call)]
    /\ lastEvent' = "retry_issued"
    /\ toast' = NoToast
    /\ UNCHANGED <<sourceImage, originalImage, maskImage,
                   currentGeneratedImage, generatedImageHistory, isGenerating,
                   isUpscaling, error, apiKey, isKeyModalOpen, selectedSize,
                   selectedMotion, isGeneratingScenes, sceneProgress, batch,
                   nextImg, ei, panel, promptCall, keyStore, stroke>>

----------------------------------------------------------------------------
(* App component: handleGeneratePersonaScenes *)

SceneRequest(src) == Request(src, "1K", NoMask, batchStructureWeight)

SceneToast(i) == Toast("Generating Scene", "info")

\* the batch ended with the flag left as it was
BatchFinally_KeepsFlag ==
    /\ isGeneratingScenes' = isGeneratingScenes
    /\ sceneProgress' = 0
    /\ batch' = IdleBatch

\* finally { setIsGeneratingScenes(false); setSceneProgress(0); }
BatchFinally ==
    /\ isGeneratingScenes' = FALSE
    /\ sceneProgress' = 0
    /\ batch' = IdleBatch

\* the persona-scene button:
\* disabled={isGenerating || isGeneratingScenes || !hasApiKey}
HandleGeneratePersonaScenes ==
    /\ UserAction
    /\ ~isKeyModalOpen
    /\ ~(isGenerating \/ isGeneratingScenes \/ ~hasApiKey)
    /\ IF sourceImage = NoImage
       THEN /\ toast' = Toast("Please upload a source image first.", "error")
            /\ lastEvent' = "scenes_rejected"
            /\ UNCHANGED <<isGeneratingScenes, sceneProgress, batch>>
       ELSE /\ isGeneratingScenes' = TRUE
            /\ sceneProgress' = 0
            /\ batch' = [call |-> Pending(EditImageInvoke), i |-> 0,
                         req |-> SceneRequest(sourceImage)]
            /\ lastEvent' = "scene_issued"
            /\ toast' = SceneToast(0)
    /\ UNCHANGED <<sourceImage, originalImage, maskImage,
                   currentGeneratedImage, generatedImageHistory, isGenerating,
                   isUpscaling, error, apiKey, isKeyModalOpen, selectedSize,
                   selectedMotion, tasks, nextImg, ei, panel, promptCall, keyStore, stroke>>

\* the call for scene i returned: commit, then the next pass of the loop
SceneReturned(result) ==
    /\ IF HasImage(result)
       THEN /\ currentGeneratedImage' = result.base64
            /\ generatedImageHistory' = AppendRecord(generatedImageHistory, result.base64)
            /\ nextImg' = nextImg + 1
       ELSE UNCHANGED <<currentGeneratedImage, generatedImageHistory, nextImg>>
    /\ IF batch.i + 1 < NumScenes
       THEN /\ sceneProgress' = batch.i + 1
            /\ isGeneratingScenes' = isGeneratingScenes
            /\ batch' = [batch EXCEPT !.call = Pending(EditImageInvoke),
                                      !.i = batch.i + 1,
                                      !.req = SceneRequest(batch.req.input)]
            /\ lastEvent' = "scene_issued"
            /\ toast' = SceneToast(batch.i + 1)
       ELSE /\ BatchFinally
            /\ lastEvent' = "scenes_complete"
            /\ toast' = Toast("Persona Scenario Generation Complete!", "success")
    /\ UNCHANGED <<sourceImage, originalImage, maskImage, isGenerating,
                   isUpscaling, error, apiKey, isKeyModalOpen, selectedSize,
                   selectedMotion, tasks>>

BatchResponse ==
    /\ UNCHANGED userActions
    /\ batch.call.pc = "request"
    /\ \E parts \in AppResponses :
          SceneReturned(EditImageReturn(batch.call, parts).result)
    /\ UNCHANGED <<ei, panel, promptCall, keyStore, stroke>>

\* a failure handled inside the loop: the notification is shown and the
\* loop goes on with the next scene
BatchFailure_Continues ==
    /\ UNCHANGED userActions
    /\ batch.call.pc = "request"
    /\ \E e \in AppThrownValues :
          LET c == EditImageCatch(batch.call, e) IN
          IF c.pc = "delay"
          THEN /\ batch' = [batch EXCEPT !.call = Pending(c)]
               /\ lastEvent' = "retry_scheduled"
               /\ toast' = NoToast
               /\ UNCHANGED <<isGeneratingScenes, sceneProgress>>
          ELSE /\ IF batch.i + 1 < NumScenes
                  THEN /\ sceneProgress' = batch.i + 1
                       /\ isGeneratingScenes' = isGeneratingScenes
                       /\ batch' = [batch EXCEPT !.call = Pending(EditImageInvoke),
                                                 !.i = batch.i + 1]
                  ELSE BatchFinally
               /\ lastEvent' = "scenes_interrupted"
               /\ toast' = Toast("Scenario Generation interrupted.", "error")
    /\ UNCHANGED <<sourceImage, originalImage, maskImage,
                   currentGeneratedImage, generatedImageHistory, isGenerating,
                   isUpscaling, error, apiKey, isKeyModalOpen, selectedSize,
                   selectedMotion, tasks, nextImg, ei, panel, promptCall, keyStore, stroke>>

\* catch (e) { showToast("Scenario Generation interrupted.") } finally
BatchFailure ==
    /\ UNCHANGED userActions
    /\ batch.call.pc = "request"
    /\ \E e \in AppThrownValues :
          LET c == EditImageCatch(batch.call, e) IN
          IF c.pc = "delay"
          THEN /\ batch' = [batch EXCEPT !.call = Pending(c)]
               /\ lastEvent' = "retry_scheduled"
               /\ toast' = NoToast
               /\ UNCHANGED <<isGeneratingScenes, sceneProgress>>
          ELSE /\ BatchFinally
               /\ lastEvent' = "scenes_interrupted"
               /\ toast' = Toast("Scenario Generation interrupted.", "error")
    /\ UNCHANGED <<sourceImage, originalImage, maskImage,
                   currentGeneratedImage, generatedImageHistory, isGenerating,
                   isUpscaling, error, apiKey, isKeyModalOpen, selectedSize,
                   selectedMotion, tasks, nextImg, ei, panel, promptCall, keyStore, stroke>>

BatchRetryTimer ==
    /\ UNCHANGED userActions
    /\ batch.call.pc = "delay"
    /\ batch' = [batch EXCEPT !.call = EditImageRetry(batch.call)]
    /\ lastEvent' = "retry_issued"
    /\ toast' = NoToast
    /\ UNCHANGED <<sourceImage, originalImage, maskImage,
                   currentGeneratedImage, generatedImageHistory, isGenerating,
                   isUpscaling, error, apiKey, isKeyModalOpen, selectedSize,
                   selectedMotion, isGeneratingScenes, sceneProgress, tasks,
                   nextImg, ei, panel, promptCall, keyStore, stroke>>

----------------------------------------------------------------------------
(* App component: user actions *)

\* the source panel's effect on [imageUrl, onMaskChange]: it runs after the
\* render in which the source's url changed (setIsMasking(false),
\* setPaths([]), onMaskChange(null)); isDrawing and currentPath are not
\* touched.  The handlers that change the source clear maskImage themselves.
SourceUrlEffect(newSource) ==
    panel' = IF newSource # sourceImage
             THEN [panel EXCEPT !.isMasking = FALSE, !.paths = <<>>]
             ELSE panel

\* a new image becomes the source: setOriginalImage, setSourceImage,
\* resetGeneratedState
LoadSource(img) ==
    /\ originalImage' = img
    /\ sourceImage' = img
    /\ currentGeneratedImage' = NoImage
    /\ generatedImageHistory' = <<>>
    /\ maskImage' = NoMask
    /\ nextImg' = nextImg + 1
    /\ SourceUrlEffect(img)

\* the hidden file input's onChange (resolved fileToImageSource)
UploadFile ==
    /\ UserAction
    /\ ~isKeyModalOpen
    /\ nextImg <= MaxImages
    /\ LoadSource(nextImg)
    /\ lastEvent' = "upload"
    /\ toast' = NoToast
    /\ UNCHANGED <<isGenerating, isUpscaling, error, apiKey, isKeyModalOpen,
                   selectedSize, selectedMotion, isGeneratingScenes,
                   sceneProgress, tasks, batch, ei, promptCall, keyStore, stroke>>

\* handlePaste (window 'paste' listener, resolved fileToImageSource)
HandlePaste ==
    /\ UserAction
    /\ nextImg <= MaxImages
    /\ LoadSource(nextImg)
    /\ error' = NoMessage
    /\ lastEvent' = "paste"
    /\ toast' = NoToast
    /\ UNCHANGED <<isGenerating, isUpscaling, apiKey, isKeyModalOpen,
                   selectedSize, selectedMotion, isGeneratingScenes,
                   sceneProgress, tasks, batch, ei, promptCall, keyStore, stroke>>

\* the source panel's delete button (shown when imageUrl && !isMasking)
HandleDeleteSource ==
    /\ UserAction
    /\ ~isKeyModalOpen
    /\ sourceImage # NoImage
    /\ ~panel.isMasking
    /\ sourceImage' = NoImage
    /\ originalImage' = NoImage
    /\ currentGeneratedImage' = NoImage
    /\ generatedImageHistory' = <<>>
    /\ maskImage' = NoMask
    /\ SourceUrlEffect(NoImage)
    /\ lastEvent' = "delete_source"
    /\ toast' = NoToast
    /\ UNCHANGED <<isGenerating, isUpscaling, error, apiKey, isKeyModalOpen,
                   selectedSize, selectedMotion, isGeneratingScenes,
                   sceneProgress, tasks, batch, nextImg, ei, promptCall, keyStore, stroke>>

\* the result panel shows its buttons when imageUrl && !isLoading
ResultPanelShown ==
    /\ currentGeneratedImage # NoImage
    /\ ~((isGenerating /\ ~isUpscaling) \/ isGeneratingScenes)

HandleDeleteResult ==
    /\ UserAction
    /\ ~isKeyModalOpen
    /\ ResultPanelShown
    /\ currentGeneratedImage' = NoImage
    /\ generatedImageHistory' = DropLast(generatedImageHistory)
    /\ lastEvent' = "delete_result"
    /\ toast' = NoToast
    /\ UNCHANGED <<sourceImage, originalImage, maskImage, isGenerating,
                   isUpscaling, error, apiKey, isKeyModalOpen, selectedSize,
                   selectedMotion, isGeneratingScenes, sceneProgress, tasks,
                   batch, nextImg, ei, panel, promptCall, keyStore, stroke>>

\* the swap button:
\* disabled={(!sourceImage && !currentGeneratedImage) || isGenerating}
HandleSwapImages ==
    /\ UserAction
    /\ ~isKeyModalOpen
    /\ ~((sourceImage = NoImage /\ currentGeneratedImage = NoImage) \/ isGenerating)
    /\ sourceImage' = currentGeneratedImage
    /\ currentGeneratedImage' = sourceImage
    /\ maskImage' = NoMask
    /\ error' = NoMessage
    /\ SourceUrlEffect(currentGeneratedImage)
    /\ lastEvent' = "swap"
    /\ toast' = NoToast
    /\ UNCHANGED <<originalImage, generatedImageHistory, isGenerating,
                   isUpscaling, apiKey, isKeyModalOpen, selectedSize,
                   selectedMotion, isGeneratingScenes, sceneProgress, tasks,
                   batch, nextImg, ei, promptCall, keyStore, stroke>>

\* a "reuse" button that also makes the record current
HandleBranchFromHistory_Selects ==
    /\ UserAction
    /\ ~isKeyModalOpen
    /\ \E k \in 1..Len(generatedImageHistory) :
          /\ sourceImage' = generatedImageHistory[k]
          /\ currentGeneratedImage' = generatedImageHistory[k]
          /\ SourceUrlEffect(generatedImageHistory[k])
    /\ maskImage' = NoMask
    /\ error' = NoMessage
    /\ lastEvent' = "branch"
    /\ toast' = NoToast
    /\ UNCHANGED <<originalImage, generatedImageHistory, isGenerating,
                   isUpscaling, apiKey, isKeyModalOpen, selectedSize,
                   selectedMotion, isGeneratingScenes, sceneProgress, tasks,
                   batch, nextImg, ei, promptCall, keyStore, stroke>>

\* the "reuse" button of a history thumbnail
HandleBranchFromHistory ==
    /\ UserAction
    /\ ~isKeyModalOpen
    /\ \E k \in 1..Len(generatedImageHistory) :
          /\ sourceImage' = generatedImageHistory[k]
          /\ SourceUrlEffect(generatedImageHistory[k])
    /\ maskImage' = NoMask
    /\ error' = NoMessage
    /\ lastEvent' = "branch"
    /\ toast' = NoToast
    /\ UNCHANGED <<originalImage, currentGeneratedImage,
                   generatedImageHistory, isGenerating, isUpscaling, apiKey,
                   isKeyModalOpen, selectedSize, selectedMotion,
                   isGeneratingScenes, sceneProgress, tasks, batch, nextImg, ei, promptCall, keyStore, stroke>>

\* const isUsingOriginal = sourceImage?.url === originalImage?.url
isUsingOriginal == sourceImage = originalImage

\* the "View Original" thumbnail of the source panel:
\* onReset={!isUsingOriginal && originalImage ? handleResetToOriginal : undefined}
HandleResetToOriginal ==
    /\ UserAction
    /\ ~isKeyModalOpen
    /\ sourceImage # NoImage
    /\ ~isUsingOriginal
    /\ originalImage # NoImage
    /\ sourceImage' = originalImage
    /\ maskImage' = NoMask
    /\ error' = NoMessage
    /\ SourceUrlEffect(originalImage)
    /\ lastEvent' = "reset_to_original"
    /\ toast' = NoToast
    /\ UNCHANGED <<originalImage, currentGeneratedImage,
                   generatedImageHistory, isGenerating, isUpscaling, apiKey,
                   isKeyModalOpen, selectedSize, selectedMotion,
                   isGeneratingScenes, sceneProgress, tasks, batch, nextImg, ei, promptCall, keyStore, stroke>>

\* a history thumbnail's onClick
SelectFromHistory ==
    /\ UserAction
    /\ ~isKeyModalOpen
    /\ \E k \in 1..Len(generatedImageHistory) :
          currentGeneratedImage' = generatedImageHistory[k]
    /\ lastEvent' = "select"
    /\ toast' = NoToast
    /\ UNCHANGED <<sourceImage, originalImage, maskImage,
                   generatedImageHistory, isGenerating, isUpscaling, error,
                   apiKey, isKeyModalOpen, selectedSize, selectedMotion,
                   isGeneratingScenes, sceneProgress, tasks, batch, nextImg,
                   ei, panel, promptCall, keyStore, stroke>>

----------------------------------------------------------------------------
(* ImagePanel (source): mask drawing *)

\* useState(false), useState(false), useState<Path[]>([]), useRef<Point[]>([])
IdlePanel ==
    [isMasking |-> FALSE, isDrawing |-> FALSE, paths |-> <<>>,
     currentPath |-> <<>>]

\* what a panel handler leaves alone in the App component
PanelFrame ==
    UNCHANGED <<sourceImage, originalImage, currentGeneratedImage,
                generatedImageHistory, isGenerating, isUpscaling, error,
                apiKey, isKeyModalOpen, selectedSize, selectedMotion,
                isGeneratingScenes, sceneProgress, tasks, batch, nextImg, ei, promptCall, keyStore, stroke>>

\* the image and the panel's buttons are rendered: imageUrl && !isLoading
SourcePanelShown == sourceImage # NoImage

\* the canvas takes pointer events: rendered, and isMasking
\* ('pointer-events-auto'); the main area takes none without a key
CanvasActive ==
    /\ SourcePanelShown
    /\ panel.isMasking
    /\ hasApiKey
    /\ ~isKeyModalOpen

\* getNormalizedPoint: a point of the displayed image, or null when the
\* pointer is outside the rendered image
NoPoint == Point(NoImage)
NormalizedPoints == {NoPoint, Point(sourceImage)}

\* the brush button: setIsMasking(true).  Entering and leaving the masking
\* mode toggles one flag and is not counted against the run's user actions.
StartMasking ==
    /\ UNCHANGED userActions
    /\ ~isKeyModalOpen
    /\ SourcePanelShown
    /\ ~panel.isMasking
    /\ panel' = [panel EXCEPT !.isMasking = TRUE]
    /\ lastEvent' = "brush"
    /\ toast' = NoToast
    /\ UNCHANGED maskImage
    /\ PanelFrame

\* the DONE button: setIsMasking(false)
DoneMasking ==
    /\ UNCHANGED userActions
    /\ ~isKeyModalOpen
    /\ SourcePanelShown
    /\ panel.isMasking
    /\ panel' = [panel EXCEPT !.isMasking = FALSE]
    /\ lastEvent' = "done"
    /\ toast' = NoToast
    /\ UNCHANGED maskImage
    /\ PanelFrame

\* onMouseDown
StartDrawing ==
    /\ UserAction
    /\ CanvasActive
    /\ \E point \in NormalizedPoints :
          panel' = IF point # NoPoint
                   THEN [panel EXCEPT !.isDrawing = TRUE,
                                      !.currentPath = <<point>>]
                   ELSE panel
    /\ lastEvent' = "mouse_down"
    /\ toast' = NoToast
    /\ UNCHANGED maskImage
    /\ PanelFrame

\* onMouseMove
Draw ==
    /\ UserAction
    /\ CanvasActive
    /\ \E point \in NormalizedPoints :
          IF panel.isDrawing /\ point # NoPoint
          THEN /\ Len(panel.currentPath) < MaxPoints
               /\ panel' = [panel EXCEPT !.currentPath = Append(@, point)]
          ELSE UNCHANGED panel
    /\ lastEvent' = "mouse_move"
    /\ toast' = NoToast
    /\ UNCHANGED maskImage
    /\ PanelFrame

\* exportMask(currentPaths)
ExportMask(currentPaths) ==
    IF sourceImage = NoImage \/ Len(currentPaths) = 0
    THEN NoMask
    ELSE Raster(currentPaths, sourceImage)

\* onMouseUp / onMouseLeave
StopDrawing ==
    /\ UserAction
    /\ CanvasActive
    /\ IF ~panel.isDrawing
       THEN UNCHANGED <<panel, maskImage>>
       ELSE IF Len(panel.currentPath) > 0
       THEN LET newPaths == Append(panel.paths, panel.currentPath) IN
            /\ Len(panel.paths) < MaxPaths
            /\ panel' = [panel EXCEPT !.isDrawing = FALSE,
                                      !.paths = newPaths,
                                      !.currentPath = <<>>]
            /\ maskImage' = ExportMask(newPaths)
       ELSE /\ panel' = [panel EXCEPT !.isDrawing = FALSE,
                                      !.currentPath = <<>>]
            /\ UNCHANGED maskImage
    /\ lastEvent' = "mouse_up"
    /\ toast' = NoToast
    /\ PanelFrame

\* a Clear button that exports the raster of no paths
ClearMask_BlackRaster ==
    /\ UserAction
    /\ ~isKeyModalOpen
    /\ SourcePanelShown
    /\ panel.isMasking
    /\ Len(panel.paths) > 0
    /\ panel' = [panel EXCEPT !.paths = <<>>]
    /\ maskImage' = Raster(<<>>, sourceImage)
    /\ lastEvent' = "clear_mask"
    /\ toast' = NoToast
    /\ PanelFrame

\* the Clear button (shown when isMasking && paths.length > 0)
ClearMask ==
    /\ UserAction
    /\ ~isKeyModalOpen
    /\ SourcePanelShown
    /\ panel.isMasking
    /\ Len(panel.paths) > 0
    /\ panel' = [panel EXCEPT !.paths = <<>>]
    /\ maskImage' = NoMask
    /\ lastEvent' = "clear_mask"
    /\ toast' = NoToast
    /\ PanelFrame

\* the quality button: setSelectedSize(prev => prev === "4K" ? "1K" : "4K")
ToggleSize ==
    /\ UserAction
    /\ ~isKeyModalOpen
    /\ hasApiKey
    /\ selectedSize' = IF selectedSize = "4K" THEN "1K" ELSE "4K"
    /\ lastEvent' = "user"
    /\ toast' = NoToast
    /\ UNCHANGED <<sourceImage, originalImage, maskImage,
                   currentGeneratedImage, generatedImageHistory, isGenerating,
                   isUpscaling, error, apiKey, isKeyModalOpen, selectedMotion,
                   isGeneratingScenes, sceneProgress, tasks, batch, nextImg, ei, panel, promptCall, keyStore, stroke>>

\* a motion button: setSelectedMotion(selectedMotion === val ? null : val)
ToggleMotion ==
    /\ UserAction
    /\ ~isKeyModalOpen
    /\ hasApiKey
    /\ \E val \in MotionChoices :
          selectedMotion' = IF selectedMotion = val THEN None ELSE val
    /\ lastEvent' = "user"
    /\ toast' = NoToast
    /\ UNCHANGED <<sourceImage, originalImage, maskImage,
                   currentGeneratedImage, generatedImageHistory, isGenerating,
                   isUpscaling, error, apiKey, isKeyModalOpen, selectedSize,
                   isGeneratingScenes, sceneProgress, tasks, batch, nextImg, ei, panel, promptCall, keyStore, stroke>>

\* the header buttons open the settings modal; its close button and its
\* backdrop close it
ToggleKeyModal ==
    /\ UserAction
    /\ isKeyModalOpen' = ~isKeyModalOpen
    /\ lastEvent' = "user"
    /\ toast' = NoToast
    /\ UNCHANGED <<sourceImage, originalImage, maskImage,
                   currentGeneratedImage, generatedImageHistory, isGenerating,
                   isUpscaling, error, apiKey, selectedSize, selectedMotion,
                   isGeneratingScenes, sceneProgress, tasks, batch, nextImg, ei, panel, promptCall, keyStore, stroke>>

\* the keys typed into the modal's input (manualApiKey.trim())
TypedKeys == {"", "key"}

HandleSaveKey ==
    /\ UserAction
    /\ isKeyModalOpen
    /\ \E k \in TypedKeys :
          IF k = ""
          THEN /\ toast' = Toast("Please enter a valid API Key", "error")
               /\ lastEvent' = "user"
               /\ UNCHANGED <<apiKey, isKeyModalOpen>>
          ELSE /\ apiKey' = k
               /\ isKeyModalOpen' = FALSE
               /\ lastEvent' = "user"
               /\ toast' = Toast("t.keySaved", "success")
    /\ UNCHANGED <<sourceImage, originalImage, maskImage,
                   currentGeneratedImage, generatedImageHistory, isGenerating,
                   isUpscaling, error, selectedSize, selectedMotion,
                   isGeneratingScenes, sceneProgress, tasks, batch, nextImg, ei, panel, promptCall, keyStore, stroke>>

HandleRemoveKey ==
    /\ UserAction
    /\ isKeyModalOpen
    /\ apiKey' = ""
    /\ lastEvent' = "user"
    /\ toast' = Toast("t.removeKey", "info")
    /\ UNCHANGED <<sourceImage, originalImage, maskImage,
                   currentGeneratedImage, generatedImageHistory, isGenerating,
                   isUpscaling, error, isKeyModalOpen, selectedSize,
                   selectedMotion, isGeneratingScenes, sceneProgress, tasks,
                   batch, nextImg, ei, panel, promptCall, keyStore, stroke>>

----------------------------------------------------------------------------
(* App component: revert (the onRevert / isRevertDisabled props handed to *)
(* the result panel; the panel renders no control that calls onRevert)    *)

\* a revert control that pops whenever history is not empty
isRevertDisabled_Empty == Len(generatedImageHistory) < 1

\* isRevertDisabled={generatedImageHistory.length < 2}
isRevertDisabled == Len(generatedImageHistory) < 2

\* onRevert: const h = [...generatedImageHistory]; h.pop();
\* setGeneratedImageHistory(h); setCurrentGeneratedImage(h[h.length-1] || null)
OnRevert ==
    LET h == DropLast(generatedImageHistory) IN
    /\ generatedImageHistory' = h
    /\ currentGeneratedImage' = IF Len(h) > 0 THEN Last(h) ELSE NoImage

\* revert(), as the two props define it: nothing happens while the control
\* is disabled
Revert ==
    /\ UserAction
    /\ IF isRevertDisabled
       THEN /\ UNCHANGED <<generatedImageHistory, currentGeneratedImage>>
            /\ lastEvent' = "revert_disabled"
       ELSE /\ OnRevert
            /\ lastEvent' = "revert"
    /\ toast' = NoToast
    /\ UNCHANGED <<sourceImage, originalImage, maskImage, isGenerating,
                   isUpscaling, error, apiKey, isKeyModalOpen, selectedSize,
                   selectedMotion, isGeneratingScenes, sceneProgress, tasks,
                   batch, nextImg, ei, panel, promptCall, keyStore, stroke>>

----------------------------------------------------------------------------
(* ImagePanel (source): pointer positions *)

\* a coordinate: the quotient n / d as JavaScript computes it, d = 0
\* standing for the NaN of 0 / 0
Ratio(n, d) == [n |-> n, d |-> d]

\* getNormalizedPoint returning null
NullPoint == [x |-> Ratio(0 - 1, 1), y |-> Ratio(0 - 1, 1)]

\* getNormalizedPoint(clientX, clientY) for an image of natural size
\* nw x nh shown object-contain in an element of w x h, the pointer being
\* px, py from the element's top-left corner.  Offsets and rendered sizes
\* are kept on a common integer scale (2 * nh across, 2 * nw down, when the
\* image is letterboxed on that axis).  With nh = 0 the comparison
\* containerRatio > imageRatio is false (imageRatio is NaN or Infinity),
\* the rendered height is NaN or 0, no comparison rejects the position and
\* the quotient is 0 / 0.
getNormalizedPoint(nw, nh, w, h, px, py) ==
    LET wider == nh > 0 /\ w * nh > nw * h
        offsetX == IF wider THEN 2 * nh * px - (w * nh - h * nw) ELSE px
        renderWidth == IF wider THEN 2 * h * nw ELSE w
        offsetY == IF wider THEN py ELSE 2 * nw * py - (h * nw - w * nh)
        renderHeight == IF wider THEN h ELSE 2 * w * nh
    IN  IF \/ offsetX < 0
           \/ offsetX > renderWidth
           \/ offsetY < 0
           \/ offsetY > renderHeight
        THEN NullPoint
        ELSE [x |-> Ratio(offsetX, renderWidth),
              y |-> Ratio(offsetY, renderHeight)]

\* img.naturalWidth, img.naturalHeight: 0 x 0 until the image has been
\* decoded (and for a file the browser cannot decode)
NaturalSizes == {<<0, 0>>} \cup ((1..MaxDim) \X (1..MaxDim))

\* img.width, img.height: the element fills the panel (w-full h-full)
ElementSizes == (1..MaxDim) \X (1..MaxDim)

\* clientX - rect.left, clientY - rect.top of a pointer event on the canvas
PointerOffsets == (0..MaxDim) \X (0..MaxDim)

\* the points getNormalizedPoint can return for one pointer event
PointerPoints ==
    {getNormalizedPoint(n[1], n[2], e[1], e[2], o[1], o[2]) :
        n \in NaturalSizes, e \in ElementSizes, o \in PointerOffsets}

\* onMouseDown, by coordinates
StartDrawingAt ==
    /\ UserAction
    /\ CanvasActive
    /\ \E point \in PointerPoints :
          panel' = IF point # NullPoint
                   THEN [panel EXCEPT !.isDrawing = TRUE,
                                      !.currentPath = <<point>>]
                   ELSE panel
    /\ lastEvent' = "mouse_down"
    /\ toast' = NoToast
    /\ UNCHANGED maskImage
    /\ PanelFrame

\* onMouseMove, by coordinates
DrawAt ==
    /\ UserAction
    /\ CanvasActive
    /\ \E point \in PointerPoints :
          IF panel.isDrawing /\ point # NullPoint
          THEN /\ Len(panel.currentPath) < MaxPoints
               /\ panel' = [panel EXCEPT !.currentPath = Append(@, point)]
          ELSE UNCHANGED panel
    /\ lastEvent' = "mouse_move"
    /\ toast' = NoToast
    /\ UNCHANGED maskImage
    /\ PanelFrame

\* the canvas position of a point with the rendered width spread over the
\* whole element
CanvasPoint_NoLetterbox(nw, nh, w, h, point) ==
    [x |-> Ratio(point.x.n * w, point.x.d),
     y |-> Ratio(point.y.n * h, point.y.d)]

\* left + point.x * renderWidth, top + point.y * renderHeight: the
\* arguments of moveTo / lineTo in draw and adjustCanvas, as exact quotients
CanvasPoint(nw, nh, w, h, point) ==
    LET wider == nh > 0 /\ w * nh > nw * h IN
    IF wider
    THEN [x |-> Ratio((w * nh - h * nw) * point.x.d
                          + 2 * point.x.n * h * nw,
                      2 * nh * point.x.d),
          y |-> Ratio(point.y.n * h, point.y.d)]
    ELSE [x |-> Ratio(point.x.n * w, point.x.d),
          y |-> Ratio((h * nw - w * nh) * point.y.d
                          + 2 * point.y.n * w * nh,
                      2 * nw * point.y.d)]

\* nothing stroked
NoSegment == [stage |-> "idle", natural |-> <<0, 0>>, element |-> <<0, 0>>,
              pointer |-> <<0, 0>>, point |-> NullPoint, at |-> NullPoint]

\* the sizes and pointer offsets of the stroked positions
CanvasInputs ==
    [stage : {"pointer"},
     natural : {<<0, 0>>} \cup ((1..MaxCanvas) \X (1..MaxCanvas)),
     element : (1..MaxCanvas) \X (1..MaxCanvas),
     pointer : (0..MaxCanvas) \X (0..MaxCanvas),
     point : {NullPoint}, at : {NullPoint}]

\* draw: const point = getNormalizedPoint(e.clientX, e.clientY)
NormalizePointer ==
    /\ stroke.stage = "pointer"
    /\ stroke' =
          [stroke EXCEPT
             !.stage = "point",
             !.point = getNormalizedPoint(stroke.natural[1], stroke.natural[2],
                                          stroke.element[1], stroke.element[2],
                                          stroke.pointer[1], stroke.pointer[2])]
    /\ UNCHANGED <<appVars, ei, promptCall, keyStore>>

\* draw: if (point) { ... ctx.lineTo(left + p2.x * renderWidth, ...) }
StrokeTo ==
    /\ stroke.stage = "point"
    /\ stroke.point # NullPoint
    /\ stroke' =
          [stroke EXCEPT
             !.stage = "stroked",
             !.at = CanvasPoint(stroke.natural[1], stroke.natural[2],
                                stroke.element[1], stroke.element[2],
                                stroke.point)]
    /\ UNCHANGED <<appVars, ei, promptCall, keyStore>>

----------------------------------------------------------------------------
(* Instruction text: executeGeneration's composition and editImage's
   additions.  A string is the sequence of its pieces: the characters of
   typed text (a space, a character of an ordinary word, a word holding one
   of bgChangeKeywords) and the fixed fragments of the code, each written
   as one named piece. *)

\* what the prompt textarea can hold
TextChars == {" ", "w", "background"}
FreeTexts == UNION {[1..n -> TextChars] : n \in 0..MaxText}

\* String.prototype.trim
RECURSIVE TrimStart(_)
TrimStart(s) ==
    IF s # <<>> /\ Head(s) = " " THEN TrimStart(Tail(s)) ELSE s

RECURSIVE TrimEnd(_)
TrimEnd(s) ==
    IF s # <<>> /\ s[Len(s)] = " "
    THEN TrimEnd(SubSeq(s, 1, Len(s) - 1))
    ELSE s

Trim(s) == TrimEnd(TrimStart(s))

\* Array.prototype.join(", ")
RECURSIVE Join(_)
Join(parts) ==
    IF parts = <<>> THEN <<>>
    ELSE IF Len(parts) = 1 THEN parts[1]
    ELSE parts[1] \o <<", ">> \o Join(Tail(parts))

\* one part when the condition holds, none otherwise: if (c) parts.push(s)
PushIf(c, s) == IF c THEN <<s>> ELSE <<>>

\* the pieces in which one of bgChangeKeywords ("background", "world",
\* "environment", "location", "place") occurs, whatever the letter case
KeywordPieces ==
    {"background", "view:side", "sheet", "shot:closeup", "style:street",
     "depth", "imposing", "negative:base", "negative:locomotion",
     "backgroundFreeze", "backgroundNegative", "scene:establishing",
     "scene:macro"}

\* bgChangeKeywords.some(kw => finalPrompt.toLowerCase().includes(kw))
hasBgChangeRequest(finalPrompt) ==
    \E i \in 1..Len(finalPrompt) : finalPrompt[i] \in KeywordPieces

\* finalPrompt.toLowerCase().includes('hyper-realistic')
IncludesHyperRealistic(finalPrompt) ==
    \E i \in 1..Len(finalPrompt) : finalPrompt[i] = "aesthetic"

\* the selections executeGeneration reads from the component state
Angles == {None, "front", "side", "back", "sheet"}
ShotSizes == {None, "extremewide"}
CameraHeights == {None, "low"}
PromptMotions == {None, "static", "sitting", "running"}
CameraMovements == {None, "dynamic"}
TrendyStyles == {None, "street"}
RandomCinematicPrompts == {"", "dutch angle"}

\* two of the lines of a scenario pool, as
\* pool[Math.floor(Math.random() * pool.length)] picks them
ScenarioLines == {"a", "b"}

\* what one composition reads: the selections and, when the motion has a
\* scenario pool, the line sampled from it
Selections ==
    {sel \in [angle : Angles, shot : ShotSizes, height : CameraHeights,
              motion : PromptMotions, movement : CameraMovements,
              style : TrendyStyles, random : RandomCinematicPrompts,
              line : {None} \cup ScenarioLines] :
        (sel.line = None) <=> (sel.motion \notin ScenarioPoolKeys)}

\* the fragments with the style left out for one of the sampled lines
cinematicPrompts_LineDropsStyle(sel) ==
    PushIf(sel.shot # None, "shot:" \o sel.shot)
    \o PushIf(sel.height # None, "height:" \o sel.height)
    \o PushIf(sel.motion # None /\ sel.motion \in ScenarioPoolKeys,
              "scenario:" \o sel.motion \o ":" \o sel.line)
    \o PushIf(sel.movement # None, "movement:" \o sel.movement)
    \o PushIf(sel.style # None /\ sel.line # "b", "style:" \o sel.style)

\* const cinematicPrompts = [] ... (shot, height, scenario, movement, style)
cinematicPrompts(sel) ==
    PushIf(sel.shot # None, "shot:" \o sel.shot)
    \o PushIf(sel.height # None, "height:" \o sel.height)
    \o PushIf(sel.motion # None /\ sel.motion \in ScenarioPoolKeys,
              "scenario:" \o sel.motion \o ":" \o sel.line)
    \o PushIf(sel.movement # None, "movement:" \o sel.movement)
    \o PushIf(sel.style # None, "style:" \o sel.style)

\* const isCinematicActive = selectedShotSize || ... || randomCinematicPrompt
isCinematicActive(sel) ==
    \/ sel.shot # None
    \/ sel.height # None
    \/ sel.motion # None
    \/ sel.movement # None
    \/ sel.random # ""

\* the depth and perspective parts
depthParts(sel) ==
    IF isCinematicActive(sel) /\ sel.angle # "sheet"
    THEN <<<<"depth">>>>
         \o PushIf(sel.height = "low" \/ sel.random = "low angle",
                   <<"imposing">>)
         \o PushIf(sel.height = "high" \/ sel.random = "high angle",
                   <<"groundLevel">>)
         \o PushIf(\/ sel.movement = "dynamic"
                   \/ sel.shot = "extremewide"
                   \/ sel.random = "fisheye",
                   <<"wideLens">>)
         \o PushIf(sel.random = "dutch angle", <<"tilted">>)
    ELSE <<>>

\* the block with the additions for running and jumping only
strictNegativePrompts_BaseOnly(motion) ==
    <<"negative:base">>
    \o PushIf(motion \in {"running", "jumping"}, "negative:locomotion")
    \o <<"negative:outdoor">>

\* strictNegativePrompts, serialized as one bracketed block
strictNegativePrompts(motion) ==
    <<"negative:base">>
    \o PushIf(motion \in {"sitting", "lying"}, "negative:furniture")
    \o PushIf(motion \in {"running", "jumping", "reaching", "crouching"},
              "negative:combat")
    \o PushIf(motion \in {"running", "jumping"}, "negative:locomotion")
    \o <<"negative:outdoor">>

\* promptParts, as executeGeneration fills it
promptParts(targetPrompt, sel) ==
    PushIf(Len(Trim(targetPrompt)) > 0, Trim(targetPrompt))
    \o PushIf(sel.angle = "side", <<"view:side">>)
    \o PushIf(sel.angle = "back", <<"view:back">>)
    \o PushIf(sel.height = "low", <<"view:low">>)
    \o PushIf(sel.height = "high", <<"view:high">>)
    \o (IF sel.angle # None /\ sel.angle # "sheet"
        THEN <<<<"commonRules">>, <<"angle:" \o sel.angle>>>>
        ELSE PushIf(sel.angle = "sheet", <<"sheet">>))
    \o PushIf(Len(cinematicPrompts(sel)) > 0,
              Join([i \in 1..Len(cinematicPrompts(sel)) |->
                      <<cinematicPrompts(sel)[i]>>]))
    \o PushIf(sel.random # "", <<"directorsCut">>)
    \o depthParts(sel)
    \o <<strictNegativePrompts(sel.motion)>>
    \o (IF sel.motion # None
        THEN <<<<"candid">>, <<"candidNegative">>>>
        ELSE <<>>)

\* a composition that sends the trimmed free text with its selected
\* directives only
finalPrompt_NoFixedParts(targetPrompt, sel) ==
    Join(PushIf(Len(Trim(targetPrompt)) > 0, Trim(targetPrompt))
         \o PushIf(Len(cinematicPrompts(sel)) > 0,
                   Join([i \in 1..Len(cinematicPrompts(sel)) |->
                           <<cinematicPrompts(sel)[i]>>])))

\* let finalPrompt = promptParts.join(", "), with the fallback
finalPrompt(targetPrompt, sel) ==
    LET joined == Join(promptParts(targetPrompt, sel)) IN
    IF Len(Trim(joined)) = 0 THEN <<"fallback">> ELSE joined

\* overrideStructureWeight === undefined
NoOverride == 0 - 1

\* the values of the structureWeight state: useState(50), setStructureWeight(35)
SliderWeights == {50, 35}

\* the overrideStructureWeight argument
Overrides == {NoOverride, 80}

\* a weight that is lowered for every selected motion
effectiveStructureWeight_AnyMotion(override, slider, motion) ==
    IF motion # None /\ override = NoOverride
    THEN motionStructureWeight
    ELSE IF override # NoOverride THEN override ELSE slider

\* effectiveStructureWeight as executeGeneration computes it
effectiveStructureWeight(override, slider, motion) ==
    IF /\ motion # None
       /\ motion \in ScenarioPoolKeys
       /\ motion # "static"
       /\ override = NoOverride
    THEN motionStructureWeight
    ELSE IF override # NoOverride THEN override ELSE slider

\* a structure directive whose low threshold includes 30
StructureInstruction_LowAt30(structureWeight_) ==
    IF structureWeight_ <= 30 THEN "structure:low"
    ELSE IF structureWeight_ > 70 THEN "structure:high"
    ELSE "structure:balanced"

\* 3. the structure directive editImage appends
StructureInstruction(structureWeight_) ==
    IF structureWeight_ < 30 THEN "structure:low"
    ELSE IF structureWeight_ > 70 THEN "structure:high"
    ELSE "structure:balanced"

\* editImage's finalPrompt: the text part of the request
EditImagePrompt(prompt, imageSize, hasMask, structureWeight_) ==
    LET trimmed == Trim(prompt)
        withTokens ==
            IF imageSize \in {"2K", "4K"} /\ ~IncludesHyperRealistic(trimmed)
            THEN trimmed \o <<", ", "aesthetic">>
            ELSE trimmed
        withMask ==
            IF hasMask THEN withTokens \o <<"maskNote">>
            ELSE IF ~hasBgChangeRequest(withTokens)
            THEN withTokens \o <<"backgroundFreeze", "backgroundNegative">>
            ELSE withTokens
    IN  withMask \o <<StructureInstruction(structureWeight_)>>

\* the scene prefixes of handleGeneratePersonaScenes
ScenePrefixes ==
    {"scene:establishing", "scene:closeup", "scene:activity",
     "scene:snapshot", "scene:macro"}

\* nothing composed yet
IdlePromptCall ==
    [stage |-> "idle", caller |-> None, targetPrompt |-> <<>>,
     sel |-> [angle |-> None, shot |-> None, height |-> None,
              motion |-> None, movement |-> None, style |-> None,
              random |-> "", line |-> None],
     motion |-> None, override |-> NoOverride, slider |-> 0,
     size |-> None, prompt |-> <<>>, imageSize |-> None, hasMask |-> FALSE,
     structureWeight |-> 0, text |-> <<>>]

PromptFrame == UNCHANGED <<appVars, ei, keyStore, stroke>>

\* executeGeneration from the composition to the arguments of editImage
ComposeGeneration ==
    /\ promptCall.stage = "idle"
    /\ \E targetPrompt \in FreeTexts, sel \in Selections,
          size \in {"1K", "4K"}, hasMask \in BOOLEAN,
          slider \in SliderWeights, override \in Overrides :
          promptCall' =
              [stage |-> "composed", caller |-> "generation",
               targetPrompt |-> targetPrompt, sel |-> sel,
               motion |-> sel.motion,
               override |-> override, slider |-> slider, size |-> size,
               prompt |-> finalPrompt(targetPrompt, sel),
               imageSize |-> InitialSize(size), hasMask |-> hasMask,
               structureWeight |->
                   effectiveStructureWeight(override, slider, sel.motion),
               text |-> <<>>]
    /\ PromptFrame

\* the texts of the repeated composition
RerunTexts == {targetPrompt \in FreeTexts : Len(targetPrompt) <= 1}

\* what one run of executeGeneration hands to editImage
ComposedCall(targetPrompt, sel, size, hasMask, slider, override) ==
    [sel |-> sel,
     prompt |-> finalPrompt(targetPrompt, sel),
     imageSize |-> InitialSize(size), hasMask |-> hasMask,
     structureWeight |->
         effectiveStructureWeight(override, slider, sel.motion),
     text |-> <<>>]

\* executeGeneration composes twice from the same free text, selections,
\* slider weight, mask and size; each run samples its own scenario line
ComposeTwice ==
    /\ promptCall.stage = "idle"
    /\ \E targetPrompt \in RerunTexts, sel \in Selections,
          line \in ScenarioLines, size \in {"1K", "4K"},
          hasMask \in BOOLEAN, slider \in SliderWeights,
          override \in Overrides :
          LET again == IF sel.line = None THEN sel
                       ELSE [sel EXCEPT !.line = line]
          IN  promptCall' =
                [stage |-> "composed", caller |-> "generation",
                 targetPrompt |-> targetPrompt,
                 first |-> ComposedCall(targetPrompt, sel, size, hasMask,
                                        slider, override),
                 second |-> ComposedCall(targetPrompt, again, size, hasMask,
                                         slider, override)]
    /\ PromptFrame

\* editImage builds the text part of each of the two calls
SentCall(call) ==
    [call EXCEPT !.text = EditImagePrompt(call.prompt, call.imageSize,
                                          call.hasMask, call.structureWeight)]

SendTwice ==
    /\ promptCall.stage = "composed"
    /\ promptCall' = [promptCall EXCEPT !.stage = "sent",
                                        !.first = SentCall(@),
                                        !.second = SentCall(@)]
    /\ PromptFrame

\* one iteration of handleGeneratePersonaScenes up to the arguments of
\* editImage: fullPrompt = `${scene.promptPrefix} ${prompt}`
ComposeScene ==
    /\ promptCall.stage = "idle"
    /\ \E prompt \in FreeTexts, prefix \in ScenePrefixes :
          promptCall' =
              [IdlePromptCall EXCEPT
                 !.stage = "composed", !.caller = "scene",
                 !.targetPrompt = prompt,
                 !.prompt = <<prefix, " ">> \o prompt,
                 !.imageSize = "1K",
                 !.structureWeight = batchStructureWeight]
    /\ PromptFrame

\* editImage called by any caller of the service module: any prompt, size,
\* mask and structure weight from 0 to 100
ComposeDirect ==
    /\ promptCall.stage = "idle"
    /\ \E prompt \in FreeTexts, imageSize \in {"1K", "2K", "4K"},
          hasMask \in BOOLEAN, weight \in 0..100 :
          promptCall' =
              [IdlePromptCall EXCEPT
                 !.stage = "composed", !.caller = "direct",
                 !.targetPrompt = prompt, !.prompt = prompt,
                 !.imageSize = imageSize, !.hasMask = hasMask,
                 !.structureWeight = weight]
    /\ PromptFrame

\* editImage builds the text part and sends the request
SendInstruction ==
    /\ promptCall.stage = "composed"
    /\ promptCall' =
          [promptCall EXCEPT
             !.stage = "sent",
             !.text = EditImagePrompt(promptCall.prompt, promptCall.imageSize,
                                      promptCall.hasMask,
                                      promptCall.structureWeight)]
    /\ PromptFrame

\* the upscale pass: the same finalPrompt, "4K", no mask, weight 100
ComposeUpscale ==
    /\ promptCall.stage = "sent"
    /\ promptCall.caller = "generation"
    /\ promptCall.size = "4K"
    /\ promptCall' =
          [promptCall EXCEPT
             !.stage = "composed", !.caller = "upscale",
             !.imageSize = "4K", !.hasMask = FALSE,
             !.structureWeight = upscaleStructureWeight,
             !.text = <<>>]
    /\ PromptFrame

----------------------------------------------------------------------------
(* ImagePanel (source): the mask overlay and its delayed redraw.  Here the
   panel record has two more fields: painted, the path set the canvas was
   last repainted with by adjustCanvas, and timers, the pending
   setTimeout(adjustCanvas, 50) callbacks in the order they were set, each
   with the path set its adjustCanvas closure captured. *)

\* the panel before any image was shown
IdleOverlayPanel ==
    [isMasking |-> FALSE, isDrawing |-> FALSE, paths |-> <<>>,
     currentPath |-> <<>>, painted |-> <<>>, timers |-> <<>>]

\* the effects that run after a render in which isMasking or paths (and
\* with it adjustCanvas) changed: if (isMasking) setTimeout(adjustCanvas,
\* 50), with no clearTimeout in the cleanup, and if (isMasking)
\* adjustCanvas()
AdjustCanvasEffects(rendered) ==
    IF rendered.isMasking
    THEN [rendered EXCEPT !.painted = rendered.paths,
                          !.timers = Append(@, rendered.paths)]
    ELSE rendered

\* the brush button, with the effects of the render that follows
OverlayStartMasking ==
    /\ UNCHANGED userActions
    /\ ~isKeyModalOpen
    /\ SourcePanelShown
    /\ ~panel.isMasking
    /\ Len(panel.timers) < MaxTimers
    /\ panel' = AdjustCanvasEffects([panel EXCEPT !.isMasking = TRUE])
    /\ lastEvent' = "brush"
    /\ toast' = NoToast
    /\ UNCHANGED maskImage
    /\ PanelFrame

\* onMouseUp / onMouseLeave, with the effects of the render that follows
OverlayStopDrawing ==
    /\ UserAction
    /\ CanvasActive
    /\ IF ~panel.isDrawing
       THEN UNCHANGED <<panel, maskImage>>
       ELSE IF Len(panel.currentPath) > 0
       THEN LET newPaths == Append(panel.paths, panel.currentPath) IN
            /\ Len(panel.paths) < MaxPaths
            /\ Len(panel.timers) < MaxTimers
            /\ panel' = AdjustCanvasEffects(
                            [panel EXCEPT !.isDrawing = FALSE,
                                          !.paths = newPaths,
                                          !.currentPath = <<>>])
            /\ maskImage' = ExportMask(newPaths)
       ELSE /\ panel' = [panel EXCEPT !.isDrawing = FALSE,
                                      !.currentPath = <<>>]
            /\ UNCHANGED maskImage
    /\ lastEvent' = "mouse_up"
    /\ toast' = NoToast
    /\ PanelFrame

\* the Clear button, with the effects of the render that follows
OverlayClearMask ==
    /\ UserAction
    /\ ~isKeyModalOpen
    /\ SourcePanelShown
    /\ panel.isMasking
    /\ Len(panel.paths) > 0
    /\ Len(panel.timers) < MaxTimers
    /\ panel' = AdjustCanvasEffects([panel EXCEPT !.paths = <<>>])
    /\ maskImage' = NoMask
    /\ lastEvent' = "clear_mask"
    /\ toast' = NoToast
    /\ PanelFrame

\* the oldest pending setTimeout(adjustCanvas, 50) fires: adjustCanvas
\* returns at once without a canvas, otherwise clears the canvas and
\* strokes the paths of its closure
RedrawTimer ==
    /\ UNCHANGED userActions
    /\ panel.timers # <<>>
    /\ panel' = [panel EXCEPT
                   !.timers = Tail(@),
                   !.painted = IF SourcePanelShown
                               THEN Head(panel.timers)
                               ELSE @]
    /\ lastEvent' = "redraw_timer"
    /\ toast' = NoToast
    /\ UNCHANGED maskImage
    /\ PanelFrame

(* App component: the access key in the input of the key modal, in
   localStorage and in process.env.API_KEY.  Here the key is a text, a
   sequence of characters, and apiKey holds such a text.  Nothing in the
   sources assigns process.env.API_KEY before the component mounts, so it
   starts undefined. *)

\* localStorage.getItem of a key that was never set, or was removed
NullItem == <<"null">>

\* process.env.API_KEY before anything is assigned to it
Undefined == <<"undefined">>

KeyChars == {" ", "k"}

\* e.target.value of the key input
KeyTexts == UNION {[1..n -> KeyChars] : n \in 0..MaxKey}

\* the values handleSaveKey can have written to localStorage
StoredKeys == {Trim(k) : k \in KeyTexts} \ {<<>>}

\* localStorage.getItem('gemini_api_key') || ''
StoredOrEmpty(item) == IF item = NullItem THEN <<>> ELSE item

\* useEffect(() => { if (apiKey) process.env.API_KEY = apiKey }, [apiKey])
ApiKeyEffect(env, key) == IF key # <<>> THEN key ELSE env

IdleKeyStore == [storage |-> NullItem, env |-> Undefined, manualApiKey |-> <<>>]

KeyFrame ==
    UNCHANGED <<sourceImage, originalImage, maskImage, currentGeneratedImage,
                generatedImageHistory, isGenerating, isUpscaling, error,
                selectedSize, selectedMotion, isGeneratingScenes,
                sceneProgress, tasks, batch, nextImg, ei, panel, promptCall,
                stroke>>

\* onChange={(e) => setManualApiKey(e.target.value)}
TypeKey ==
    /\ isKeyModalOpen
    /\ \E k \in KeyTexts : keyStore' = [keyStore EXCEPT !.manualApiKey = k]
    /\ lastEvent' = "key_typed"
    /\ UNCHANGED <<apiKey, isKeyModalOpen, userActions, toast>>
    /\ KeyFrame

\* the text written to localStorage, with the input taken as typed
StoredKeyText_Raw(manualApiKey) == manualApiKey

\* localStorage.setItem('gemini_api_key', manualApiKey.trim())
StoredKeyText(manualApiKey) == Trim(manualApiKey)

\* handleSaveKey; localStorage.setItem can throw (storage full or denied),
\* which leaves the handler before it changed anything
HandleSaveKeyText ==
    /\ UserAction
    /\ isKeyModalOpen
    /\ IF Trim(keyStore.manualApiKey) = <<>>
       THEN /\ toast' = Toast("Please enter a valid API Key", "error")
            /\ lastEvent' = "key_rejected"
            /\ UNCHANGED <<apiKey, isKeyModalOpen, keyStore, stroke>>
       ELSE \/ /\ apiKey' = Trim(keyStore.manualApiKey)
               /\ keyStore' =
                     [keyStore EXCEPT
                        !.storage = StoredKeyText(keyStore.manualApiKey),
                        !.env = ApiKeyEffect(Trim(keyStore.manualApiKey),
                                             Trim(keyStore.manualApiKey))]
               /\ isKeyModalOpen' = FALSE
               /\ lastEvent' = "key_saved"
               /\ toast' = Toast("t.keySaved", "success")
            \/ /\ lastEvent' = "key_store_failed"
               /\ UNCHANGED <<apiKey, isKeyModalOpen, keyStore, toast>>
    /\ KeyFrame

\* handleRemoveKey
HandleRemoveKeyText ==
    /\ UserAction
    /\ isKeyModalOpen
    /\ apiKey' = <<>>
    /\ keyStore' = [storage |-> NullItem,
                    env |-> ApiKeyEffect(<<>>, <<>>),
                    manualApiKey |-> <<>>]
    /\ lastEvent' = "key_removed"
    /\ toast' = Toast("t.removeKey", "info")
    /\ UNCHANGED isKeyModalOpen
    /\ KeyFrame

----------------------------------------------------------------------------
(* Specifications *)

AppStart ==
    /\ sourceImage = NoImage
    /\ originalImage = NoImage
    /\ maskImage = NoMask
    /\ currentGeneratedImage = NoImage
    /\ generatedImageHistory = <<>>
    /\ isGenerating = FALSE
    /\ isUpscaling = FALSE
    /\ error = NoMessage
    /\ isKeyModalOpen = FALSE
    /\ selectedSize = "1K"
    /\ selectedMotion = None
    /\ isGeneratingScenes = FALSE
    /\ sceneProgress = 0
    /\ tasks = [t \in Tasks |-> IdleTask]
    /\ batch = IdleBatch
    /\ nextImg = 1
    /\ toast = NoToast
    /\ lastEvent = "init"
    /\ panel = IdlePanel
    /\ promptCall = IdlePromptCall
    /\ keyStore = IdleKeyStore
    /\ stroke = NoSegment

\* useState(() => localStorage.getItem('gemini_api_key') || '')
AppInit ==
    /\ AppStart
    /\ apiKey \in {"", "key"}
    /\ userActions = MaxUserActions

EditIdle == [call |-> IdleCall, log |-> <<>>]

Init ==
    /\ AppInit
    /\ ei = EditIdle

Next ==
    \/ GenerateButton
    \/ PromptEnterKey
    \/ \E t \in Tasks : TaskResponse(t)
    \/ \E t \in Tasks : TaskFailure(t)
    \/ \E t \in Tasks : TaskRetryTimer(t)
    \/ HandleGeneratePersonaScenes
    \/ BatchResponse
    \/ BatchFailure
    \/ BatchRetryTimer
    \/ UploadFile
    \/ HandlePaste
    \/ HandleDeleteSource
    \/ HandleDeleteResult
    \/ HandleSwapImages
    \/ HandleBranchFromHistory
    \/ SelectFromHistory
    \/ HandleResetToOriginal
    \/ StartMasking
    \/ DoneMasking
    \/ StartDrawing
    \/ Draw
    \/ StopDrawing
    \/ ClearMask
    \/ ToggleSize
    \/ ToggleMotion
    \/ ToggleKeyModal
    \/ HandleSaveKey
    \/ HandleRemoveKey

Spec == Init /\ [][Next]_vars

\* The App component under the scheduling the runtime provides: an awaited
\* generateContent promise settles (it resolves or rejects), and a pending
\* setTimeout callback (the 2 s retry delay) is run by the event loop.
Fairness ==
    /\ \A t \in Tasks : WF_vars(TaskResponse(t) \/ TaskFailure(t))
    /\ \A t \in Tasks : WF_vars(TaskRetryTimer(t))
    /\ WF_vars(BatchResponse \/ BatchFailure)
    /\ WF_vars(BatchRetryTimer)

\* the requests, their continuations, and the user actions that change what
\* a continuation finds: the source image, the history, the size
NextLive ==
    \/ GenerateButton
    \/ PromptEnterKey
    \/ \E t \in Tasks : TaskResponse(t)
    \/ \E t \in Tasks : TaskFailure(t)
    \/ \E t \in Tasks : TaskRetryTimer(t)
    \/ HandleGeneratePersonaScenes
    \/ BatchResponse
    \/ BatchFailure
    \/ BatchRetryTimer
    \/ UploadFile
    \/ HandleDeleteSource
    \/ HandleDeleteResult
    \/ HandleSwapImages
    \/ ToggleSize

SpecLive == Init /\ [][NextLive]_vars /\ Fairness

\* the source panel with the handlers that change the source image and a
\* generation that takes the mask: a run that starts with a stored key
InitMask ==
    /\ AppStart
    /\ apiKey = "key"
    /\ userActions = MaxMaskActions
    /\ ei = EditIdle

NextMask ==
    \/ UploadFile
    \/ HandlePaste
    \/ HandleDeleteSource
    \/ HandleSwapImages
    \/ HandleBranchFromHistory
    \/ HandleResetToOriginal
    \/ GenerateButton
    \/ \E t \in Tasks : TaskResponse(t)
    \/ StartMasking
    \/ DoneMasking
    \/ StartDrawing
    \/ Draw
    \/ StopDrawing
    \/ ClearMask

SpecMask == InitMask /\ [][NextMask]_vars

\* the stroke recorder by coordinates: a source is loaded, mask mode is
\* entered and pointer events reach the canvas
InitPoint ==
    /\ AppStart
    /\ apiKey = "key"
    /\ userActions = MaxUserActions
    /\ ei = EditIdle

NextPoint ==
    \/ UploadFile
    \/ StartMasking
    \/ StartDrawingAt
    \/ DrawAt
    \/ StopDrawing

SpecPoint == InitPoint /\ [][NextPoint]_vars

\* the instruction text: every composition and every request text
InitPrompt ==
    /\ AppStart
    /\ apiKey = "key"
    /\ userActions = MaxUserActions
    /\ ei = EditIdle

NextPrompt ==
    \/ ComposeGeneration
    \/ ComposeScene
    \/ ComposeDirect
    \/ SendInstruction
    \/ ComposeUpscale

SpecPrompt == InitPrompt /\ [][NextPrompt]_vars

\* one pointer event of a stroke, for every size and position
InitCanvas ==
    /\ sourceImage = NoImage
    /\ originalImage = NoImage
    /\ maskImage = NoMask
    /\ currentGeneratedImage = NoImage
    /\ generatedImageHistory = <<>>
    /\ isGenerating = FALSE
    /\ isUpscaling = FALSE
    /\ error = NoMessage
    /\ apiKey = "key"
    /\ isKeyModalOpen = FALSE
    /\ selectedSize = "1K"
    /\ selectedMotion = None
    /\ isGeneratingScenes = FALSE
    /\ sceneProgress = 0
    /\ tasks = [t \in Tasks |-> IdleTask]
    /\ batch = IdleBatch
    /\ nextImg = 1
    /\ userActions = MaxUserActions
    /\ toast = NoToast
    /\ lastEvent = "init"
    /\ panel = IdlePanel
    /\ promptCall = IdlePromptCall
    /\ keyStore = IdleKeyStore
    /\ ei = EditIdle
    /\ stroke \in CanvasInputs

NextCanvas == NormalizePointer \/ StrokeTo

SpecCanvas == InitCanvas /\ [][NextCanvas]_vars

\* the composition run twice on the same inputs
NextCompose == ComposeTwice \/ SendTwice

SpecCompose == InitPrompt /\ [][NextCompose]_vars

\* the mask overlay: the source panel with its redraw timers
InitOverlay ==
    /\ sourceImage = NoImage
    /\ originalImage = NoImage
    /\ maskImage = NoMask
    /\ currentGeneratedImage = NoImage
    /\ generatedImageHistory = <<>>
    /\ isGenerating = FALSE
    /\ isUpscaling = FALSE
    /\ error = NoMessage
    /\ apiKey = "key"
    /\ isKeyModalOpen = FALSE
    /\ selectedSize = "1K"
    /\ selectedMotion = None
    /\ isGeneratingScenes = FALSE
    /\ sceneProgress = 0
    /\ tasks = [t \in Tasks |-> IdleTask]
    /\ batch = IdleBatch
    /\ nextImg = 1
    /\ userActions = MaxUserActions
    /\ toast = NoToast
    /\ lastEvent = "init"
    /\ panel = IdleOverlayPanel
    /\ promptCall = IdlePromptCall
    /\ keyStore = IdleKeyStore
    /\ stroke = NoSegment
    /\ ei = EditIdle

NextOverlay ==
    \/ UploadFile
    \/ HandleDeleteSource
    \/ OverlayStartMasking
    \/ DoneMasking
    \/ StartDrawing
    \/ Draw
    \/ OverlayStopDrawing
    \/ OverlayClearMask
    \/ RedrawTimer

SpecOverlay == InitOverlay /\ [][NextOverlay]_vars

\* the key modal: the App component mounts with what localStorage holds
InitKey ==
    /\ sourceImage = NoImage
    /\ originalImage = NoImage
    /\ maskImage = NoMask
    /\ currentGeneratedImage = NoImage
    /\ generatedImageHistory = <<>>
    /\ isGenerating = FALSE
    /\ isUpscaling = FALSE
    /\ error = NoMessage
    /\ isKeyModalOpen = FALSE
    /\ selectedSize = "1K"
    /\ selectedMotion = None
    /\ isGeneratingScenes = FALSE
    /\ sceneProgress = 0
    /\ tasks = [t \in Tasks |-> IdleTask]
    /\ batch = IdleBatch
    /\ nextImg = 1
    /\ userActions = MaxUserActions
    /\ toast = NoToast
    /\ lastEvent = "init"
    /\ panel = IdlePanel
    /\ promptCall = IdlePromptCall
    /\ ei = EditIdle
    /\ stroke = NoSegment
    /\ \E item \in {NullItem} \cup StoredKeys :
          /\ apiKey = StoredOrEmpty(item)
          /\ keyStore = [storage |-> item,
                         env |-> ApiKeyEffect(Undefined, StoredOrEmpty(item)),
                         manualApiKey |-> StoredOrEmpty(item)]

NextKey ==
    \/ ToggleKeyModal
    \/ TypeKey
    \/ HandleSaveKeyText
    \/ HandleRemoveKeyText

SpecKey == InitKey /\ [][NextKey]_vars

\* histories of distinct records
Histories ==
    {h \in SeqsUpTo(1..MaxImages, MaxImages) :
        \A j, k \in 1..Len(h) : j # k => h[j] # h[k]}

\* revert() applied to every history, with any record (or none) current
InitRevert ==
    /\ sourceImage \in 0..MaxImages
    /\ originalImage = sourceImage
    /\ maskImage = NoMask
    /\ currentGeneratedImage \in 0..MaxImages
    /\ generatedImageHistory \in Histories
    /\ isGenerating = FALSE
    /\ isUpscaling = FALSE
    /\ error = NoMessage
    /\ apiKey = "key"
    /\ isKeyModalOpen = FALSE
    /\ selectedSize = "1K"
    /\ selectedMotion = None
    /\ isGeneratingScenes = FALSE
    /\ sceneProgress = 0
    /\ tasks = [t \in Tasks |-> IdleTask]
    /\ batch = IdleBatch
    /\ nextImg = MaxImages + 1
    /\ userActions = MaxUserActions
    /\ toast = NoToast
    /\ lastEvent = "init"
    /\ panel = IdlePanel
    /\ promptCall = IdlePromptCall
    /\ keyStore = IdleKeyStore
    /\ stroke = NoSegment
    /\ ei = EditIdle

NextRevert == Revert

SpecRevert == InitRevert /\ [][NextRevert]_vars

\* one editImage call in isolation
InitEdit ==
    /\ AppInit
    /\ ei = EditIdle

NextEdit ==
    \/ EI_Invoke
    \/ EI_Respond
    \/ EI_Fail
    \/ EI_RetryTimer

SpecEdit == InitEdit /\ [][NextEdit]_vars

----------------------------------------------------------------------------
(* Properties of the remote-call layer (SpecEdit) *)

FirstAttemptTransient ==
    /\ Len(ei.log) >= 1
    /\ ~ei.log[1].ok
    /\ IsTransientError(ei.log[1].e.message)

CallEnded == ei.call.pc \in {"returned", "thrown"}

\* C3: a transient failure on the first attempt is followed by a retry, and
\* when the second attempt succeeds the call has made exactly two attempts
\* and returns what the second attempt answered.
C3_RetryThenSuccess ==
    /\ (Len(ei.log) = 1 /\ FirstAttemptTransient) =>
           /\ ei.call.pc \in {"delay", "request"}
           /\ ei.call.attempt = 1
    /\ (Len(ei.log) = 2 /\ FirstAttemptTransient /\ ei.log[2].ok) =>
           /\ ei.call.pc = "returned"
           /\ ei.call.attempts = 2
           /\ ei.call.result = ParseResponse(ei.log[2].parts)
           /\ ei.call.thrown = NoMessage

C3_Witness ==
    /\ Len(ei.log) = 2
    /\ FirstAttemptTransient
    /\ ei.log[2].ok
    /\ ei.call.pc = "returned"
    /\ HasImage(ei.call.result)

\* C4: a transient failure followed by a second transient failure ends the
\* call after exactly two attempts with SERVER_BUSY.
C4_TransientTwiceIsServerBusy ==
    (/\ Len(ei.log) = 2
     /\ FirstAttemptTransient
     /\ ~ei.log[2].ok
     /\ IsTransientError(ei.log[2].e.message)) =>
        /\ ei.call.pc = "thrown"
        /\ ei.call.attempts = 2
        /\ ei.call.thrown = ServerBusyMessage

\* C5: a call makes at most two attempts; a second attempt is made only
\* after a transient failure of the first; a first failure that is not
\* transient ends the call at once, after one attempt.
C5_AtMostTwoAttempts ==
    /\ ei.call.attempts <= 2
    /\ Len(ei.log) <= 2
    /\ ei.call.attempts = 2 => FirstAttemptTransient
    /\ (/\ Len(ei.log) >= 1
        /\ ~ei.log[1].ok
        /\ ~IsTransientError(ei.log[1].e.message)) =>
           /\ ei.call.pc = "thrown"
           /\ ei.call.attempts = 1
           /\ Len(ei.log) = 1

C5_Witness ==
    /\ CallEnded
    /\ ei.call.attempts = 2
    /\ FirstAttemptTransient

\* C6: a failure whose message matches a credential marker is never
\* retried: it ends the call, with the fix-your-configuration error.
C6_CredentialNeverRetried ==
    \A i \in 1..Len(ei.log) :
        (~ei.log[i].ok /\ IsCredentialError(ei.log[i].e.message)) =>
            /\ i = Len(ei.log)
            /\ ei.call.pc = "thrown"
            /\ ei.call.thrown = InvalidKeyMessage

----------------------------------------------------------------------------
(* Properties of the orchestrator (Spec) *)

Outstanding(c) == c.pc = "request"

OutstandingCalls ==
    Cardinality({t \in Tasks : Outstanding(tasks[t].call)})
        + (IF Outstanding(batch.call) THEN 1 ELSE 0)

\* C1: at most one generation has a remote call outstanding.
C1_SingleFlight == OutstandingCalls <= 1

\* a step that issues a request to the remote service (a first attempt or
\* a retry)
TaskIssues(t) ==
    /\ Outstanding(tasks'[t].call)
    /\ \/ ~Outstanding(tasks[t].call)
       \/ tasks'[t].calls # tasks[t].calls

BatchIssues ==
    /\ Outstanding(batch'.call)
    /\ \/ ~Outstanding(batch.call)
       \/ batch'.i # batch.i

\* C2: no request is issued to the remote service in a state where the
\* source image is absent or the credential is not configured.
C2_PreconditionsAtEveryCall ==
    [][((\E t \in Tasks : TaskIssues(t)) \/ BatchIssues) =>
          (sourceImage' # NoImage /\ apiKey' # "")]_vars

\* a step in which executeGeneration issues its first (base-tier) call
StartsGeneration(t) ==
    /\ tasks[t].phase = "none"
    /\ tasks'[t].phase = "base"

\* C7 as stated: an ultra request makes its first call at the high tier
\* ("2K"), any other request at the requested tier.
C7_FirstCallHighTier ==
    [][\A t \in Tasks : StartsGeneration(t) =>
          tasks'[t].req.imageSize =
              (IF selectedSize = "4K" THEN "2K" ELSE selectedSize)]_vars

\* C7 amended: an ultra ("4K") request makes its first call at the standard
\* tier ("1K"), any other request at the requested tier.
C7_FirstCallStandardTier ==
    [][\A t \in Tasks : StartsGeneration(t) =>
          /\ tasks'[t].size = selectedSize
          /\ tasks'[t].req.imageSize =
                 (IF selectedSize = "4K" THEN "1K" ELSE selectedSize)]_vars

C7_Witness ==
    \E t \in Tasks :
        /\ tasks[t].phase = "base"
        /\ tasks[t].size = "4K"
        /\ tasks[t].req.imageSize = "1K"
        /\ lastEvent = "generate"

\* a step in which the base call returned an image and the upscale call is
\* issued
StartsUpscale(t) ==
    /\ tasks[t].phase = "base"
    /\ tasks'[t].phase = "upscale"

\* a step in which the upscale call returned an image
UpscaleCommits(t) ==
    /\ tasks[t].phase = "upscale"
    /\ tasks'[t].phase = "none"
    /\ lastEvent' = "upscale_committed"

\* a step in which the upscale call failed for good
UpscaleFails(t) ==
    /\ tasks[t].phase = "upscale"
    /\ tasks'[t].phase = "none"
    /\ lastEvent' = "upscale_failed"

\* C8: an ultra generation whose two calls return an image makes exactly
\* two editImage calls; the second is issued in the step in which the first
\* returned its image, with that image as input, weight 100 and tier "4K";
\* when it returns, current is the image it returned.
C8_UltraTwoCalls ==
    [][\A t \in Tasks :
          /\ tasks[t].calls <= 2
          /\ StartsUpscale(t) =>
                /\ tasks[t].size = "4K"
                /\ tasks[t].calls = 1
                /\ tasks'[t].calls = 2
                /\ nextImg' = nextImg + 1
                /\ tasks'[t].req = Request(nextImg, "4K", NoMask, 100)
          /\ UpscaleCommits(t) =>
                /\ tasks[t].calls = 2
                /\ tasks[t].req.input = tasks[t].baseOut
                /\ tasks[t].baseOut # NoImage
                /\ tasks[t].req.structureWeight = 100
                /\ tasks[t].req.imageSize = "4K"
                /\ nextImg' = nextImg + 1
                /\ currentGeneratedImage' = nextImg]_vars

C8_Witness ==
    /\ lastEvent = "upscale_committed"
    /\ selectedSize = "4K"
    /\ selectedMotion # None
    /\ currentGeneratedImage # NoImage
    /\ generatedImageHistory # <<>>
    /\ currentGeneratedImage = Last(generatedImageHistory)

InHistory(img, history) == \E k \in 1..Len(history) : history[k] = img

C10_BaseCommittedBeforeUpscale ==
    [][\A t \in Tasks : StartsUpscale(t) =>
          /\ Outstanding(tasks'[t].call)
          /\ tasks'[t].call.attempts = 1
          /\ generatedImageHistory' =
                 Append(generatedImageHistory, tasks'[t].req.input)
          /\ currentGeneratedImage' = tasks'[t].req.input
          /\ ~isGenerating']_vars

C10_Witness ==
    /\ lastEvent = "upscale_issued"
    /\ ~isGenerating
    /\ isUpscaling
    /\ \E t \in Tasks :
          /\ tasks[t].phase = "upscale"
          /\ Outstanding(tasks[t].call)
          /\ currentGeneratedImage = tasks[t].req.input
          /\ Last(generatedImageHistory) = tasks[t].req.input

----------------------------------------------------------------------------
(* Response parsing (SpecEdit) and empty results (Spec) *)

\* the first content segment, in order, that carries inline image data
RECURSIVE FirstImage(_)
FirstImage(parts) ==
    IF parts = <<>> THEN NoImage
    ELSE IF Head(parts).inlineData # NoImage THEN Head(parts).inlineData
    ELSE FirstImage(Tail(parts))

HasText(parts) == \E k \in 1..Len(parts) : parts[k].text # None

\* C11: the image of a returned result is the first segment of the response
\* that carries inline image data, whatever segments follow it; text is
\* captured exactly when the response carries a text segment.
C11_FirstImageIsResult ==
    ei.call.pc = "returned" =>
        /\ ei.call.result.base64 = FirstImage(Last(ei.log).parts)
        /\ (ei.call.result.text # None) <=> HasText(Last(ei.log).parts)

\* a step in which the base call of task t returned neither image nor text
BaseReturnsEmpty(t) ==
    /\ tasks[t].phase = "base"
    /\ tasks'[t].phase = "none"
    /\ lastEvent' = "base_empty"

----------------------------------------------------------------------------
(* History (Spec) *)

\* a step in which a generation (a base call or a scene call) returned an
\* image: the continuation of an await, taking the next fresh image
GenerationReturnsImage ==
    /\ userActions' = userActions
    /\ nextImg' = nextImg + 1
    /\ lastEvent' # "upscale_committed"

\* a step of revert, delete-result, delete-source or source replacement
TruncatingStep ==
    lastEvent' \in {"delete_result", "delete_source", "upload", "paste"}

IsPrefix(p, q) ==
    /\ Len(p) <= Len(q)
    /\ \A k \in 1..Len(p) : p[k] = q[k]

\* C13: every generation that returns an image adds exactly one entry, its
\* image, at the end of history; a successful upscale leaves the number of
\* entries (and every entry but the last) as it was; no other step except
\* delete and source replacement changes history.  Hence N generations
\* from an empty history leave N entries in completion order.
C13_HistoryCountsGenerations ==
    [][/\ GenerationReturnsImage =>
             generatedImageHistory' = Append(generatedImageHistory, nextImg)
       /\ lastEvent' = "upscale_committed" =>
             /\ Len(generatedImageHistory') = Len(generatedImageHistory)
             /\ \A k \in 1..(Len(generatedImageHistory) - 1) :
                    generatedImageHistory'[k] = generatedImageHistory[k]
       /\ ~(GenerationReturnsImage \/ lastEvent' = "upscale_committed"
               \/ TruncatingStep) =>
             generatedImageHistory' = generatedImageHistory]_vars

C13_Witness ==
    /\ generatedImageHistory = <<2, 3>>
    /\ currentGeneratedImage = 3
    /\ sourceImage = 1
    /\ lastEvent \in {"base_committed", "scene_issued"}

----------------------------------------------------------------------------
(* revert (SpecRevert) *)

----------------------------------------------------------------------------
(* History and the current record (Spec) *)

C16_CurrentPointsIntoHistory ==
    /\ currentGeneratedImage # NoImage =>
          InHistory(currentGeneratedImage, generatedImageHistory)
    /\ currentGeneratedImage = NoImage => generatedImageHistory = <<>>

\* C17: selecting a record changes only the current record, to a record of
\* history; branching from a record changes only the source image, to a
\* record of history, and clears the mask and the error indicator; neither
\* changes history and branching does not change current.
C17_SelectAndBranchFrames ==
    [][/\ lastEvent' = "select" =>
             /\ InHistory(currentGeneratedImage', generatedImageHistory)
             /\ UNCHANGED <<sourceImage, originalImage, maskImage,
                            generatedImageHistory, isGenerating, isUpscaling,
                            error, apiKey, isKeyModalOpen, selectedSize,
                            selectedMotion, isGeneratingScenes, sceneProgress,
                            tasks, batch, nextImg, panel>>
       /\ lastEvent' = "branch" =>
             /\ InHistory(sourceImage', generatedImageHistory)
             /\ maskImage' = NoMask
             /\ error' = NoMessage
             /\ UNCHANGED <<originalImage, currentGeneratedImage,
                            generatedImageHistory, isGenerating, isUpscaling,
                            apiKey, isKeyModalOpen, selectedSize,
                            selectedMotion, isGeneratingScenes, sceneProgress,
                            tasks, batch, nextImg>>]_vars

C17_Witness ==
    /\ lastEvent = "branch"
    /\ Len(generatedImageHistory) = 2
    /\ sourceImage = generatedImageHistory[1]
    /\ currentGeneratedImage = generatedImageHistory[2]

----------------------------------------------------------------------------
(* The mask and the drawn paths (SpecMask) *)

\* C18: in every state with no stroke in progress the mask is a function
\* of the path set: none when the paths are empty, otherwise the
\* rasterization of exactly the current paths on the source image.
C18_MaskIsFunctionOfPaths ==
    ~panel.isDrawing =>
        maskImage = IF panel.paths = <<>>
                    THEN NoMask
                    ELSE Raster(panel.paths, sourceImage)

\* every point of every stroke of the mask was taken on the image img, and
\* the raster has the size of img
MaskDrawnOn(mask, img) ==
    \/ mask = NoMask
    \/ /\ mask.size = img
       /\ \A i \in 1..Len(mask.strokes) :
             \A j \in 1..Len(mask.strokes[i]) : mask.strokes[i][j].on = img

\* C19: every change of the source image leaves the paths empty and the
\* mask none, and the mask of every editImage call was rasterized only
\* from paths drawn on that call's source image.
C19_MaskBelongsToSource ==
    [][/\ sourceImage' # sourceImage =>
             /\ panel'.paths = <<>>
             /\ maskImage' = NoMask
       /\ \A t \in Tasks :
             MaskDrawnOn(tasks'[t].req.maskImage, tasks'[t].req.input)]_vars

\* C20: clearing the mask leaves the paths empty and the mask none (never
\* a raster without strokes), and whenever the paths are empty the mask is
\* none.
C20_ClearLeavesNoMask ==
    [][/\ lastEvent' = "clear_mask" =>
             /\ panel'.paths = <<>>
             /\ maskImage' = NoMask
       /\ panel.paths = <<>> => maskImage = NoMask
       /\ panel'.paths = <<>> => maskImage' = NoMask]_vars

C20_Witness ==
    /\ lastEvent = "clear_mask"
    /\ panel.isMasking
    /\ panel.paths = <<>>
    /\ maskImage = NoMask

----------------------------------------------------------------------------
(* The stroke recorder (SpecMask) *)

\* the recorder's transitions other than a pointer-down while Drawing
StrokeRecorderSteps ==
    /\ (~panel.isDrawing /\ panel'.isDrawing) =>
          /\ lastEvent' = "mouse_down"
          /\ panel'.currentPath = <<Point(sourceImage)>>
    /\ (panel.isDrawing /\ ~panel'.isDrawing) => lastEvent' = "mouse_up"
    /\ (panel.isDrawing /\ lastEvent' = "mouse_up") =>
          /\ ~panel'.isDrawing
          /\ panel'.paths = Append(panel.paths, panel.currentPath)
          /\ panel'.currentPath = <<>>
    /\ (panel.isDrawing /\ lastEvent' = "mouse_move") =>
          \/ panel' = panel
          \/ panel' = [panel EXCEPT
                         !.currentPath = Append(@, Point(sourceImage))]
    /\ (~panel.isDrawing /\ lastEvent' \in {"mouse_move", "mouse_up"}) =>
          UNCHANGED <<panel, maskImage>>

\* C21: the recorder enters Drawing only from Idle, on a pointer-down
\* inside the rendered image (a pointer-down while Drawing starts nothing);
\* pointer-up or pointer-leave returns it to Idle and appends exactly the
\* points received during the stroke, in order, as one path at the end of
\* the path set; pointer-move, -up and -leave in Idle change nothing.
C21_StrokeRecorderMachine ==
    [][/\ StrokeRecorderSteps
       /\ (panel.isDrawing /\ lastEvent' = "mouse_down") =>
             panel' = panel]_vars

\* every step obeys the recorder's transitions when a pointer-down while
\* Drawing is left out of account
StrokeRecorderOutsideRestart == [][StrokeRecorderSteps]_vars

----------------------------------------------------------------------------
(* Recorded points (SpecPoint) *)

\* a coordinate in [0, 1]
InUnit(c) == c.d > 0 /\ 0 <= c.n /\ c.n <= c.d

PointsInUnit(path) ==
    \A j \in 1..Len(path) : InUnit(path[j].x) /\ InUnit(path[j].y)

\* C22: positions outside the rendered image never become points: every
\* point of every recorded path and of the path in progress has both
\* coordinates in [0, 1].
C22_PointsAreNormalized ==
    /\ PointsInUnit(panel.currentPath)
    /\ \A i \in 1..Len(panel.paths) : PointsInUnit(panel.paths[i])

\* the same for an image that has been decoded
PointsOfDecodedImage ==
    \A n \in (1..MaxDim) \X (1..MaxDim), e \in ElementSizes,
       o \in PointerOffsets :
       LET point == getNormalizedPoint(n[1], n[2], e[1], e[2], o[1], o[2])
       IN  point # NullPoint => InUnit(point.x) /\ InUnit(point.y)

\* the quotient c is the whole number k
Is(c, k) == c.d > 0 /\ c.n = k * c.d

\* C34: for every element size, natural size of a decoded image and
\* pointer position inside the rendered image, the canvas position
\* left + x * renderWidth, top + y * renderHeight of the normalized point
\* is the pointer position, whichever axis is letterboxed.
C34_NormalizeRoundTrip ==
    (/\ stroke.stage = "stroked"
     /\ stroke.natural[1] > 0
     /\ stroke.natural[2] > 0) =>
        /\ Is(stroke.at.x, stroke.pointer[1])
        /\ Is(stroke.at.y, stroke.pointer[2])

\* a position off the centre of an image letterboxed left and right was
\* stroked where the pointer was
C34_Witness ==
    /\ stroke.stage = "stroked"
    /\ stroke.natural = <<2, 1>>
    /\ stroke.element = <<3, 1>>
    /\ stroke.pointer = <<1, 1>>
    /\ stroke.point.x = Ratio(1, 4)
    /\ Is(stroke.at.x, 1)

\* the same on an image letterboxed above and below
LetterboxedAboveAndBelow ==
    /\ stroke.stage = "stroked"
    /\ stroke.natural = <<1, 2>>
    /\ stroke.element = <<1, 3>>
    /\ stroke.pointer = <<1, 1>>
    /\ Is(stroke.at.y, 1)

----------------------------------------------------------------------------
(* The instruction text (SpecPrompt) *)

MaskPieces == {"maskNote", "backgroundFreeze", "backgroundNegative"}
StructurePieces == {"structure:low", "structure:high", "structure:balanced"}
DirectivePieces ==
    {"view:side", "view:back", "view:low", "view:high", "commonRules",
     "angle:front", "angle:side", "angle:back", "sheet", "shot:closeup",
     "shot:extremewide", "height:low", "height:high", "scenario:static:a",
     "scenario:static:b", "scenario:sitting:a", "scenario:sitting:b",
     "scenario:running:a", "scenario:running:b", "movement:dynamic",
     "style:street", "directorsCut"}
DepthPieces == {"depth", "imposing", "groundLevel", "wideLens", "tilted"}
NegativePieces ==
    {"negative:base", "negative:furniture", "negative:combat",
     "negative:locomotion", "negative:outdoor"}
CandidPieces == {"candid", "candidNegative"}

\* the place of a piece in the order the specification lists (0 for the
\* separator and the pieces the list does not mention)
ListedRank(piece) ==
    IF piece \in TextChars \cup ScenePrefixes THEN 1
    ELSE IF piece \in MaskPieces THEN 2
    ELSE IF piece \in StructurePieces THEN 3
    ELSE IF piece \in DirectivePieces THEN 4
    ELSE IF piece \in DepthPieces THEN 5
    ELSE IF piece \in NegativePieces THEN 6
    ELSE IF piece \in CandidPieces THEN 7
    ELSE 0

\* the order the code produces: editImage appends its two directives after
\* everything executeGeneration composed
AppendedRank(piece) ==
    IF piece \in MaskPieces THEN 8
    ELSE IF piece \in StructurePieces THEN 9
    ELSE ListedRank(piece)

Sent == promptCall.stage = "sent"
Has(piece) == \E i \in 1..Len(promptCall.text) : promptCall.text[i] = piece

\* C23: the fragments present in the text sent to the remote service appear
\* in the listed order: free text, mask or background directive, structure
\* directive, angle/shot/height/motion/movement/style directives,
\* depth/perspective directives, negative block, candid directives.
C23_ListedCompositionOrder ==
    Sent =>
        \A i, j \in 1..Len(promptCall.text) :
            (/\ i < j
             /\ ListedRank(promptCall.text[i]) # 0
             /\ ListedRank(promptCall.text[j]) # 0) =>
                ListedRank(promptCall.text[i]) <= ListedRank(promptCall.text[j])

\* the fragments appear in the order of the code: the listed order with the
\* mask or background directive and the structure directive moved to the end
OrderInCode ==
    Sent =>
        \A i, j \in 1..Len(promptCall.text) :
            (/\ i < j
             /\ AppendedRank(promptCall.text[i]) # 0
             /\ AppendedRank(promptCall.text[j]) # 0) =>
                AppendedRank(promptCall.text[i])
                    <= AppendedRank(promptCall.text[j])

\* the free text holds one of the background/scene-change keywords
FreeTextHasKeyword ==
    \E i \in 1..Len(promptCall.targetPrompt) :
        promptCall.targetPrompt[i] = "background"

\* C24: without a mask the text sent contains the background-preservation
\* directive unless the user's free text holds a background/scene-change
\* keyword; with a mask it contains the mask restriction and no
\* background-preservation directive.
C24_MaskOrBackgroundDirective ==
    Sent =>
        IF promptCall.hasMask
        THEN Has("maskNote") /\ ~Has("backgroundFreeze")
        ELSE /\ ~Has("maskNote")
             /\ Has("backgroundFreeze") <=> ~FreeTextHasKeyword

\* C25: for every structure weight from 0 to 100 the text sent holds
\* exactly one structure directive: the pose-change one below 30, the
\* exact-preservation one above 70, the balanced one from 30 to 70.
C25_OneStructureDirective ==
    Sent =>
        LET w == promptCall.structureWeight
            at == {i \in 1..Len(promptCall.text) :
                      promptCall.text[i] \in StructurePieces}
        IN  /\ Cardinality(at) = 1
            /\ w < 30 => Has("structure:low")
            /\ w > 70 => Has("structure:high")
            /\ (30 <= w /\ w <= 70) => Has("structure:balanced")

C25_Witness ==
    /\ Sent
    /\ promptCall.structureWeight = 30
    /\ Has("structure:balanced")

\* C26: in a generation with a motion other than "static" and no weight
\* override the base call gets weight 20 (and the low-weight directive);
\* otherwise it gets the override if one was supplied, else the slider's
\* weight.
C26_EffectiveStructureWeight ==
    (promptCall.caller = "generation") =>
        LET lowered == /\ promptCall.motion \notin {None, "static"}
                       /\ promptCall.override = NoOverride
        IN  /\ promptCall.structureWeight =
                  IF lowered THEN 20
                  ELSE IF promptCall.override # NoOverride
                  THEN promptCall.override
                  ELSE promptCall.slider
            /\ (Sent /\ lowered) => Has("structure:low")

C26_Witness ==
    /\ Sent
    /\ promptCall.caller = "generation"
    /\ promptCall.motion = "running"
    /\ promptCall.override = NoOverride
    /\ promptCall.slider = 50
    /\ promptCall.structureWeight = 20
    /\ Has("structure:low")

\* C27: the instruction handed to editImage by a generation, its upscale
\* pass or a scene is never empty or blank, whatever the free text and the
\* selections, and neither is the text sent to the remote service.
C27_InstructionNeverEmpty ==
    /\ (promptCall.caller \in {"generation", "upscale", "scene"}) =>
          Len(Trim(promptCall.prompt)) > 0
    /\ Sent => Len(Trim(promptCall.text)) > 0

C27_Witness ==
    /\ promptCall.stage = "composed"
    /\ promptCall.caller = "generation"
    /\ promptCall.targetPrompt = <<" ">>
    /\ promptCall.prompt = <<"negative:base", "negative:outdoor">>

\* C31: every instruction composed by executeGeneration holds the negative
\* block built from the base list; the block holds the outdoor-furniture
\* terms exactly for the motions sitting and lying, and the combat terms
\* exactly for running, jumping, reaching and crouching.  With no mask and
\* a free text asking for another background, the text sent holds the
\* negative block and no background-preservation directive.
C31_NegativeBlock ==
    (promptCall.caller \in {"generation", "upscale"}) =>
        LET InPrompt(piece) ==
                \E i \in 1..Len(promptCall.prompt) :
                    promptCall.prompt[i] = piece
        IN  /\ InPrompt("negative:base")
            /\ InPrompt("negative:furniture")
                   <=> promptCall.motion \in {"sitting", "lying"}
            /\ InPrompt("negative:combat")
                   <=> promptCall.motion \in
                          {"running", "jumping", "reaching", "crouching"}
            /\ (Sent /\ ~promptCall.hasMask /\ FreeTextHasKeyword) =>
                   Has("negative:base") /\ ~Has("backgroundFreeze")

\* "background" typed, no mask, motion sitting: the text was sent with the
\* furniture terms in its negative block
C31_Witness ==
    /\ Sent
    /\ promptCall.caller = "generation"
    /\ ~promptCall.hasMask
    /\ FreeTextHasKeyword
    /\ promptCall.motion = "sitting"
    /\ Has("negative:furniture")
    /\ ~Has("negative:combat")

\* a running motion was sent with the combat terms and without the
\* furniture terms
CombatTermsSent ==
    /\ Sent
    /\ promptCall.motion = "running"
    /\ Has("negative:combat")
    /\ ~Has("negative:furniture")

\* one of the fragments the cinematic selections contribute is selected
AnyCinematicFragment(sel) ==
    \/ sel.shot # None
    \/ sel.height # None
    \/ sel.motion # None
    \/ sel.movement # None
    \/ sel.style # None
    \/ sel.random # ""

PromptHas(piece) ==
    \E i \in 1..Len(promptCall.prompt) : promptCall.prompt[i] = piece

\* C32: the generic depth/perspective directives are in the instruction
\* exactly when a shot size, camera height, motion, camera movement, trend
\* style or director's pick is selected and the angle is not the reference
\* sheet; never with the reference sheet.
C32_DepthWhenCinematic ==
    (promptCall.caller \in {"generation", "upscale"}) =>
        (PromptHas("depth") <=>
            (AnyCinematicFragment(promptCall.sel)
             /\ promptCall.sel.angle # "sheet"))

\* the directives are in the instruction exactly when isCinematicActive,
\* which leaves the trend style out, holds and the angle is not the sheet
DepthWhenActiveInCode ==
    (promptCall.caller \in {"generation", "upscale"}) =>
        /\ PromptHas("depth") <=>
              (isCinematicActive(promptCall.sel)
               /\ promptCall.sel.angle # "sheet")
        /\ (promptCall.sel.angle = "sheet") =>
              \A i \in 1..Len(promptCall.prompt) :
                  promptCall.prompt[i] \notin DepthPieces

ScenarioPieces ==
    {"scenario:" \o motion \o ":" \o line :
        motion \in PromptMotions \ {None}, line \in ScenarioLines}

SampledLinesDiffer ==
    /\ promptCall.stage = "sent"
    /\ promptCall.first.sel.line # promptCall.second.sel.line
    /\ promptCall.first.text # promptCall.second.text

----------------------------------------------------------------------------
(* Timers (SpecOverlay) *)

\* C28: a timer never mutates state after its owner was superseded: a
\* delayed overlay redraw scheduled with an older path set does not
\* repaint the overlay once the path set has changed.
C28_StaleRedrawNeverRepaints ==
    [][(/\ lastEvent' = "redraw_timer"
        /\ Head(panel.timers) # panel.paths) =>
            panel'.painted = panel.painted]_vars

\* a redraw timer that fires without a canvas changes nothing but the
\* list of pending timers
RedrawWithoutCanvasIsInert ==
    [][(lastEvent' = "redraw_timer" /\ ~SourcePanelShown) =>
            panel' = [panel EXCEPT !.timers = Tail(@)]]_vars

(***************************************************************************)
(* The busy flags (SpecLive) *)
(***************************************************************************)

Busy == isGenerating \/ isUpscaling \/ isGeneratingScenes

\* C29: whenever a generation request (single, with or without the upscale
\* pass, or the persona-scene batch) has raised a busy flag, a state follows
\* in which isGenerating, isUpscaling and isGeneratingScenes are all false.
C29_BusyLeadsToIdle == Busy ~> ~Busy

\* a 4K generation ran through its upscale pass, or a scene batch ran to its
\* end, and left no flag set
C29_Witness ==
    /\ lastEvent \in {"upscale_committed", "upscale_failed", "scenes_complete",
                       "scenes_interrupted", "generate_failed"}
    /\ ~Busy

(***************************************************************************)
(* The access key (SpecKey) *)
(***************************************************************************)

\* the credential a slot denotes: none for null, undefined and ''
Denotes(slot) == IF slot \in {NullItem, Undefined} THEN <<>> ELSE slot

\* C30: after any sequence of save-key and remove-key actions (a rejected
\* save of a blank key included), process.env.API_KEY, the apiKey state and
\* the item in localStorage denote the same credential: one trimmed text,
\* or none.
C30_CredentialsAgree ==
    /\ Denotes(keyStore.env) = Denotes(apiKey)
    /\ Denotes(keyStore.storage) = Denotes(apiKey)
    /\ Trim(apiKey) = apiKey

\* a key typed with surrounding blanks was saved
C30_Witness ==
    /\ lastEvent = "key_saved"
    /\ keyStore.manualApiKey # apiKey
    /\ keyStore.env = apiKey
    /\ keyStore.storage = apiKey

\* a stored key was removed, or a blank key was rejected
KeyRemovedOrRejected ==
    \/ lastEvent = "key_removed" /\ keyStore.storage = NullItem
    \/ lastEvent = "key_rejected" /\ apiKey # <<>>

(***************************************************************************)
(* Results that arrive late (Spec) *)
(***************************************************************************)

\* the task whose upscale call returned an image in this step
UpscaleCommittedBy(t) ==
    /\ lastEvent' = "upscale_committed"
    /\ tasks[t].phase = "upscale"
    /\ tasks'[t] = IdleTask

\* C35: a successful upscale replaces in the history exactly the base
\* record it was made from and no other entry, whatever happened while the
\* upscale call was outstanding.
C35_UpscaleReplacesItsBase ==
    [][\A t \in Tasks :
          UpscaleCommittedBy(t) =>
              /\ Len(generatedImageHistory') = Len(generatedImageHistory)
              /\ \A i \in 1..Len(generatedImageHistory) :
                    generatedImageHistory'[i] =
                        IF generatedImageHistory[i] = tasks[t].baseOut
                        THEN currentGeneratedImage'
                        ELSE generatedImageHistory[i]]_vars

\* with the base record still the last entry, the upscale replaces that
\* entry and leaves the others
UpscaleReplacesBaseWhenLast ==
    [][\A t \in Tasks :
          (/\ UpscaleCommittedBy(t)
           /\ generatedImageHistory # <<>>
           /\ Last(generatedImageHistory) = tasks[t].baseOut) =>
              generatedImageHistory' =
                  [generatedImageHistory EXCEPT
                     ![Len(generatedImageHistory)] = currentGeneratedImage']]_vars

\* the task whose outstanding call returned an image in this step
ResultDeliveredBy(t) ==
    /\ tasks[t].call.pc = "request"
    /\ tasks'[t] # tasks[t]
    /\ lastEvent' \in {"base_committed", "upscale_issued", "upscale_committed"}

\* the source was replaced or deleted after the task's request was made:
\* image identities are handed out in increasing order, so the image a
\* request was made from is older than the original exactly when a newer
\* image was loaded afterwards; after a delete there is no source at all
StartedBeforeReplacement(t) ==
    \/ sourceImage = NoImage /\ originalImage = NoImage
    \/ originalImage # NoImage /\ tasks[t].req.input < originalImage

\* C36: once the source was replaced by upload or paste, or deleted, no
\* result of a generation started before that is appended to the history
\* or made current.
C36_NoResultAfterReplacement ==
    [][\A t \in Tasks :
          (ResultDeliveredBy(t) /\ StartedBeforeReplacement(t)) =>
              /\ generatedImageHistory' = generatedImageHistory
              /\ currentGeneratedImage' = currentGeneratedImage]_vars

\* upload, paste and delete reset the history to empty and the current
\* result to absent
ReplacementResetsResults ==
    [][lastEvent' \in {"upload", "paste", "delete_source"} =>
          /\ generatedImageHistory' = <<>>
          /\ currentGeneratedImage' = NoImage]_vars

(***************************************************************************)
(* Single clicks (SpecMask) *)
(***************************************************************************)

\* every recorded path is a single click
OnlyClicks(paths) == \A i \in 1..Len(paths) : Len(paths[i]) < 2

\* C37: a single click produces no mask: when every recorded path has fewer
\* than 2 points the exported mask is none, and a remote call is given a
\* mask only if some recorded path has at least 2 points.
C37_SingleClickNoMask ==
    [][/\ (/\ lastEvent' = "mouse_up"
           /\ panel'.paths # panel.paths
           /\ OnlyClicks(panel'.paths)) => maskImage' = NoMask
       /\ \A t \in Tasks :
             (/\ lastEvent' = "generate"
              /\ tasks'[t] # tasks[t]
              /\ tasks'[t].req.maskImage # NoMask) => ~OnlyClicks(panel.paths)]_vars

\* the raster exported for clicks only has no stroke on it
ClicksExportBlankRaster ==
    [][(/\ lastEvent' = "mouse_up"
        /\ panel'.paths # panel.paths
        /\ OnlyClicks(panel'.paths)) =>
            /\ maskImage'.size = sourceImage
            /\ maskImage'.strokes = <<>>]_vars

(***************************************************************************)
(* Deleting the displayed result (Spec) *)
(***************************************************************************)

\* the displayed result is a record of the history
CurrentIsRecorded ==
    \E i \in 1..Len(generatedImageHistory) :
        generatedImageHistory[i] = currentGeneratedImage

\* C38: deleting the displayed result removes from the history exactly the
\* record that was current and leaves every other record in place,
\* whichever record had been selected as current.
C38_DeleteRemovesCurrent ==
    [][(lastEvent' = "delete_result" /\ CurrentIsRecorded) =>
          generatedImageHistory' =
              SelectSeq(generatedImageHistory,
                        LAMBDA record : record # currentGeneratedImage)]_vars

\* with the last record displayed, the delete removes that record only
DeleteRemovesCurrentWhenLast ==
    [][(/\ lastEvent' = "delete_result"
        /\ generatedImageHistory # <<>>
        /\ Last(generatedImageHistory) = currentGeneratedImage) =>
            /\ Len(generatedImageHistory') = Len(generatedImageHistory) - 1
            /\ \A i \in 1..Len(generatedImageHistory') :
                  generatedImageHistory'[i] = generatedImageHistory[i]
            /\ currentGeneratedImage' = NoImage]_vars

(***************************************************************************)
(* The persona-scene batch (Spec) *)
(***************************************************************************)

\* a scene call is issued in this step
SceneCallIssued ==
    /\ batch'.call.pc = "request"
    /\ batch'.call.attempts = 1
    /\ batch' # batch

\* C39: the five scene calls are issued strictly one after another; when
\* the call for a scene fails no further scene call is issued, the records
\* already appended stay in the history, the error is reported as a
\* notification only, and in every outcome the batch flag is cleared and
\* the progress counter is reset to 0.
C39_PersonaSceneBatch ==
    [][/\ SceneCallIssued =>
             \/ /\ batch = IdleBatch
                /\ batch'.i = 0
             \/ /\ batch.call.pc = "request"
                /\ batch'.i = batch.i + 1
                /\ batch'.i < 5
                /\ sceneProgress' = batch'.i
       /\ lastEvent' = "scenes_interrupted" =>
             /\ batch.call.pc = "request"
             /\ batch' = IdleBatch
             /\ generatedImageHistory' = generatedImageHistory
             /\ currentGeneratedImage' = currentGeneratedImage
             /\ error' = error
             /\ toast' = Toast("Scenario Generation interrupted.", "error")
       /\ lastEvent' = "scenes_complete" =>
             /\ batch.i + 1 = 5
             /\ batch' = IdleBatch
       /\ batch' = IdleBatch =>
             /\ ~isGeneratingScenes'
             /\ sceneProgress' = 0
       /\ isGeneratingScenes' => batch' # IdleBatch]_vars

\* the call for the third scene failed: the two records of the scenes before
\* it are in the history, the flag is cleared and the counter is 0
C39_Witness ==
    /\ lastEvent = "scenes_interrupted"
    /\ Len(generatedImageHistory) = 2
    /\ currentGeneratedImage = Last(generatedImageHistory)
    /\ batch = IdleBatch
    /\ ~isGeneratingScenes
    /\ sceneProgress = 0
    /\ error = NoMessage

\* all five scene calls returned
AllScenesReturned ==
    /\ lastEvent = "scenes_complete"
    /\ batch = IdleBatch
    /\ ~isGeneratingScenes
    /\ sceneProgress = 0

====
